---- MODULE Spec2Model ----
(***************************************************************************)
(* Runtime::prove and Runtime::verify of core/src/stark/runtime.rs as a    *)
(* state machine: the sequential fill pass, the parallel commit tasks, the *)
(* observation loop, the parallel per-chip proving tasks, the global       *)
(* commit/prove, and the verifier's observation loop, per-chip loop,       *)
(* global check and cumulative-sum check.                                  *)
(*                                                                         *)
(* The build feature "perf" (#[cfg(feature = "perf")], runtime.rs 223 and  *)
(* 255) is a build-time input: the variable perf is chosen in Init and     *)
(* never changes.                                                          *)
(*                                                                         *)
(* Rust indexes from 0; the model indexes sequences from 1, so chip i of   *)
(* the model is registry slot i-1 of the source.                           *)
(*                                                                         *)
(* Smaller machines share the module.      SpecFill runs the fill pass of  *)
(* prove over all twenty registry slots, with the event lists each chip    *)
(* reads and appends to.  SpecChallenger drives DuplexChallengerVariable   *)
(* of recursion/circuit-v2/src/challenger.rs and its reference with the    *)
(* same observe and sample calls.  SpecEcrecover runs ecrecover and       *)
(* double_and_add_base of zkvm/lib/src/secp256k1.rs on a small group, for  *)
(* both build targets.  SpecFp12 calls into Fp12MulChip of                 *)
(* core/src/syscall/precompiles/fp384/fp12.rs: one field-operation step,   *)
(* sum_of_products, fp12_mul, and the syscall with the inclusion test.     *)
(* Each specification keeps the variables of the others at their initial   *)
(* values.                                                                 *)
(***************************************************************************)
EXTENDS Integers, Sequences, FiniteSets, TLC

(* ------------------------------ bounds -------------------------------- *)
\* Number of registry slots the model runs the protocol over.
MaxChips == 3
\* Largest number of shards a chip's event log is split into.
MaxShards == 2
\* Order of the stand-in for the challenge field (sums are taken mod this).
FieldOrder == 2

\* Largest field element the challenger is made to observe.
MaxFelt == 2
\* Largest number of calls made on a challenger and its copy after copy().
MaxCopyOps == 2
\* Order of the stand-in for the secp256k1 group and its scalar field.
CurveOrder == 5
\* Number of bits of a scalar of the stand-in field.
ScalarBits == 3
\* Order of the stand-in for the base field of BLS12-381.
FpModulus == 3
\* Largest number of events a chip's list holds before the fill pass.
MaxEvents == 1

(* ----------------------------- registry ------------------------------- *)
\* RegistryOrder with mul placed before divrem.
RegistryOrder_MulFirst ==
    << "program", "cpu", "sha_extend", "sha_compress", "ed_add",
       "ed_decompress", "k256_decompress", "weierstrass_add",
       "weierstrass_double", "keccak_permute", "add", "sub", "bitwise",
       "mul", "divrem", "shift_right", "shift_left", "lt", "field", "bytes" >>

\* The array literal of segment_chips, in source order.
RegistryOrder ==
    << "program", "cpu", "sha_extend", "sha_compress", "ed_add",
       "ed_decompress", "k256_decompress", "weierstrass_add",
       "weierstrass_double", "keccak_permute", "add", "sub", "bitwise",
       "divrem", "mul", "shift_right", "shift_left", "lt", "field", "bytes" >>

\* pub const NUM_CHIPS (20 in the source); the model keeps the first
\* MaxChips slots of the registry so that the parallel phases stay finite.
NUM_CHIPS == MaxChips

segment_chips == SubSeq(RegistryOrder, 1, NUM_CHIPS)

global_chips == << "memory_init", "memory_finalize", "program_memory_init" >>

\* Box::new(ProgramChip::new()), the inert chip put into the vacated slot.
Placeholder == "program"

\* MemReplace returning the element now stored at i, not the one taken out.
MemReplace_Stored(arr, i, v) == [arr |-> [arr EXCEPT ![i] = v], old |-> v]

\* mem::replace(&mut arr[i], v): stores v at i and returns the old element.
MemReplace(arr, i, v) == [arr |-> [arr EXCEPT ![i] = v], old |-> arr[i]]

\* ChipsV2 with the shard loop run once whatever n is.
ChipsV2_Single(i, n) ==
    [k \in 1..1 |-> MemReplace(segment_chips, i, Placeholder).old]

\* The loop "for _ in 0..n { chips = segment_chips(); chip = mem::replace(
\* &mut chips[i], placeholder); chips_v2.push(chip) }".
ChipsV2(i, n) ==
    [k \in 1..n |-> MemReplace(segment_chips, i, Placeholder).old]

Chips == 1..NUM_CHIPS

(* --------------------------- field helpers ---------------------------- *)
FAdd(a, b) == (a + b) % FieldOrder

FNeg(a) == (FieldOrder - (a % FieldOrder)) % FieldOrder

RECURSIVE FSum(_)
\* iter().copied().sum::<SC::Challenge>()
FSum(s) == IF s = << >> THEN 0 ELSE FAdd(Head(s), FSum(Tail(s)))

RECURSIVE SumOfProofs(_)
\* "for proof in segments_proofs.iter() { sum += proof.commulative_sums... }"
SumOfProofs(ps) ==
    IF ps = << >> THEN 0
    ELSE FAdd(FSum(Head(ps).commulative_sums), SumOfProofs(Tail(ps)))

Min(a, b) == IF a < b THEN a ELSE b

(* ------------------- collaborators outside runtime.rs ----------------- *)
\* Contribution of shard `part` of chip i to the cross-table running sum.
Interactions(i, part) == (i + part) % FieldOrder

\* chip.shard(&segment): the chip's event log split into n ordered shards.
Shard(i, seg) ==
    [k \in 1..seg.events[i] |->
        [chip |-> segment_chips[i], part |-> k, bus |-> Interactions(i, k)]]

\* chip.generate_trace(&mut shard): the trace matrix of one shard.
GenerateTrace(shard) ==
    [chip |-> shard.chip, part |-> shard.part, bus |-> shard.bus]

\* pcs.commit_batches(traces): a binding digest of the batch plus the
\* prover-side data that opens it.
CommitBatches(traces) ==
    [commit |-> [digest |-> traces, flip |-> 0], data |-> traces]

\* A commitment value with a byte flipped: a different value.
Flip(c) == [c EXCEPT !.flip = 1 - @]

\* Total of the local chips' running-sum contributions of a segment.
RECURSIVE LocalTotal(_, _)
LocalTotal(seg, i) ==
    IF i = 0 THEN 0
    ELSE FAdd(FSum([k \in 1..seg.events[i] |-> Interactions(i, k)]),
              LocalTotal(seg, i - 1))

\* Prover::commit_main(config, &global_chips, &mut global_segment): one
\* trace per global chip, committed in one batch.
CommitMain(chips, gseg) ==
    LET traces == [k \in 1..Len(chips) |->
                     [chip |-> chips[k], part |-> k,
                      bus |-> IF k = 1 THEN gseg.balance ELSE 0]]
        cb == CommitBatches(traces)
    IN [traces |-> traces, main_commit |-> cb.commit,
        main_data |-> cb.data, n |-> Len(chips)]

\* challenger.observe(commitment)
Observe(ch, commitment) == [ch EXCEPT !.observed = Append(@, commitment)]

\* The challenges a sub-protocol samples from its transcript.
Challenges(transcript) == << "challenges", transcript >>

\* Prover::prove(config, challenger, chips, main_data): the per-chip
\* sub-protocol.  The proof echoes the main commitment and n, opens one
\* value set per (chip, trace) pair, is bound to the challenges sampled from
\* the transcript it was given and to the commitment it opens, and carries
\* one cumulative sum per trace.
ProverProve(transcript, chips, md) ==
    LET m == Min(Len(chips), Len(md.traces))
    IN [main_commit |-> md.main_commit,
        n |-> md.n,
        opened |-> [k \in 1..m |-> chips[k]],
        opens |-> md.main_commit,
        challenges |-> Challenges(transcript),
        commulative_sums |-> [k \in 1..m |-> md.traces[k].bus]]

\* Verifier::verify(config, chips, challenger, proof): Ok, or the
\* chip-level VerificationError.
VerifierVerify(chips, transcript, proof) ==
    IF Len(proof.opened) # Len(chips) THEN "BadOpening"
    ELSE IF proof.opens # proof.main_commit THEN "BadCommitment"
    ELSE IF proof.challenges # Challenges(transcript) THEN "BadOpening"
    ELSE IF \E k \in 1..Len(chips) : proof.opened[k] # chips[k]
         THEN "BadConstraintEvaluation"
    ELSE "Ok"

(* ------------------------------ results ------------------------------- *)
NoResult == [kind |-> "none", err |-> "none"]

\* Ok(())
OkResult == [kind |-> "Ok", err |-> "none"]

\* MapSegmentErr wrapping the error in the other variant.
MapSegmentErr_AsGlobal(e) == [kind |-> "InvalidGlobalProof", err |-> e]

\* .map_err(ProgramVerificationError::InvalidSegmentProof)
MapSegmentErr(e) == [kind |-> "InvalidSegmentProof", err |-> e]

\* What verify returns when the check of local chip i fails with e: the
\* closure of map_err is the variant constructor, the loop index and the
\* chip's name are not part of the value.
SegmentFailure(i, e) == MapSegmentErr(e)

\* .map_err(ProgramVerificationError::InvalidGlobalProof)
MapGlobalErr(e) == [kind |-> "InvalidGlobalProof", err |-> e]

\* Err(ProgramVerificationError::NonZeroCommulativeSum)
NonZeroCommulativeSum == [kind |-> "NonZeroCommulativeSum", err |-> "none"]

(* ------------------------------- state -------------------------------- *)
VARIABLES
    perf,             \* the build has feature "perf"
    pc,               \* position of the prove / verify call
    segment,          \* self.segment
    global_segment,   \* self.global_segment
    fill_i,           \* index of the fill loop
    commit_task,      \* status of each task of the parallel commit map
    main_datas,       \* collected MainData, registry order
    challenger,       \* the challenger passed to prove
    obs_i,            \* index of the prover's observe loop
    prove_task,       \* status of each task of the parallel proving map
    p_clone,          \* challenger.clone() handed to each local Prover::prove
    local_proofs,     \* collected local proofs, registry order
    global_main_data, \* MainData of the global chips
    p_gclone,         \* challenger.clone() handed to the global Prover::prove
    global_proof,     \* the global proof
    tamper,           \* what happened to the proofs between prove and verify
    v_challenger,     \* the challenger passed to verify
    segments_proofs,  \* verify's slice argument
    v_global_proof,   \* verify's global_proof argument
    v_obs_i,          \* index of the verifier's observe loop
    v_i,              \* index of the verifier's zip loop
    v_clone,          \* challenger.clone() handed to each local Verifier::verify
    v_chips,          \* chips_v2 handed to each local Verifier::verify
    v_gclone,         \* challenger.clone() handed to the global Verifier::verify
    sum,              \* the accumulator of the cumulative-sum check
    result            \* what verify returned

(* ---------- DuplexChallengerVariable (recursion/circuit-v2) ----------- *)
\* use sp1_recursion_core_v2::runtime::{DIGEST_SIZE, HASH_RATE,
\* PERMUTATION_WIDTH}
PERMUTATION_WIDTH == 16
HASH_RATE == 8

\* A field element in the circuit: a constant, or output at of the
\* permutation applied after the absorptions perm.
Const(v) == [perm |-> << >>, at |-> 0, val |-> v]

PermOut(h, k) == [perm |-> h, at |-> k, val |-> 0]

NoFelt == Const(-1)

\* builder.poseidon2_permute_v2(state): a permutation without collisions.
\* The new state is named by the permutations before it (carried by the
\* last cell, which no absorption overwrites) and the constants absorbed.
Poseidon2Permute(state) ==
    LET absorbed == [k \in 1..PERMUTATION_WIDTH |->
                        IF state[k].perm = << >> THEN state[k].val ELSE -1]
        h == Append(state[PERMUTATION_WIDTH].perm, absorbed)
    IN [k \in 1..PERMUTATION_WIDTH |-> PermOut(h, k)]

\* dst[0..src.len()].copy_from_slice(src), for src no longer than dst.
CopyFromSlice(dst, src) ==
    [k \in 1..Len(dst) |-> IF k <= Len(src) THEN src[k] ELSE dst[k]]

\* DuplexChallengerVariable::new
DuplexChallengerVariable_new ==
    [sponge_state |-> [k \in 1..PERMUTATION_WIDTH |-> Const(0)],
     input_buffer |-> << >>,
     output_buffer |-> << >>,
     panicked |-> FALSE]

\* DuplexChallengerVariable::duplexing.  The last statement indexes
\* output_buffer[0..PERMUTATION_WIDTH]: a Vec shorter than that makes the
\* index panic.
duplexing(c) ==
    LET absorbed == CopyFromSlice(c.sponge_state, c.input_buffer)
        permuted == Poseidon2Permute(absorbed)
    IN IF Len(c.output_buffer) < PERMUTATION_WIDTH
       THEN [sponge_state |-> permuted, input_buffer |-> << >>,
             output_buffer |-> c.output_buffer, panicked |-> TRUE]
       ELSE [sponge_state |-> permuted, input_buffer |-> << >>,
             output_buffer |-> CopyFromSlice(c.output_buffer, permuted),
             panicked |-> c.panicked]

\* observe without the test of the buffer's length: nothing is absorbed.
observe_NeverDuplexing(c, value) ==
    [c EXCEPT !.output_buffer = << >>, !.input_buffer = Append(@, value)]

\* DuplexChallengerVariable::observe
observe(c, value) ==
    LET c1 == [c EXCEPT !.output_buffer = << >>,
                        !.input_buffer = Append(@, value)]
    IN IF Len(c1.input_buffer) = HASH_RATE THEN duplexing(c1) ELSE c1

\* DuplexChallengerVariable::sample: the duplexing is run on self.clone(),
\* whose result is dropped; a panic inside it is the caller's panic.  Then
\* self.output_buffer.pop().expect(..).
sample(c) ==
    LET dup == c.input_buffer # << >> \/ c.output_buffer = << >>
        cl == IF dup THEN duplexing(c) ELSE c
    IN IF cl.panicked \/ c.output_buffer = << >>
       THEN [c |-> [c EXCEPT !.panicked = TRUE], out |-> NoFelt]
       ELSE [c |-> [c EXCEPT !.output_buffer =
                               SubSeq(@, 1, Len(@) - 1)],
             out |-> c.output_buffer[Len(c.output_buffer)]]

\* builder.eval(x): a new circuit variable constrained to equal x; its
\* value is the value of x.
Eval(x) == [perm |-> x.perm, at |-> x.at, val |-> x.val]

\* copy that leaves the buffered inputs behind.
copy_DropsInputs(c) ==
    [sponge_state |-> [k \in 1..PERMUTATION_WIDTH |-> Eval(c.sponge_state[k])],
     input_buffer |-> << >>,
     output_buffer |-> [k \in 1..Len(c.output_buffer) |->
                          Eval(c.output_buffer[k])],
     panicked |-> c.panicked]

\* DuplexChallengerVariable::copy: every cell of the state and of both
\* buffers is evaluated into a new variable, the buffers into new Vecs.
copy(c) ==
    [sponge_state |-> [k \in 1..PERMUTATION_WIDTH |-> Eval(c.sponge_state[k])],
     input_buffer |-> [k \in 1..Len(c.input_buffer) |->
                         Eval(c.input_buffer[k])],
     output_buffer |-> [k \in 1..Len(c.output_buffer) |->
                          Eval(c.output_buffer[k])],
     panicked |-> c.panicked]

\* The reference, p3_challenger::DuplexChallenger: new, duplexing, observe
\* and sample.
p3_new ==
    [sponge_state |-> [k \in 1..PERMUTATION_WIDTH |-> Const(0)],
     input_buffer |-> << >>,
     output_buffer |-> << >>]

p3_duplexing(c) ==
    LET absorbed == CopyFromSlice(c.sponge_state, c.input_buffer)
        permuted == Poseidon2Permute(absorbed)
    IN [sponge_state |-> permuted, input_buffer |-> << >>,
        output_buffer |-> permuted]

p3_observe(c, value) ==
    LET c1 == [c EXCEPT !.output_buffer = << >>,
                        !.input_buffer = Append(@, value)]
    IN IF Len(c1.input_buffer) = HASH_RATE THEN p3_duplexing(c1) ELSE c1

p3_sample(c) ==
    LET c1 == IF c.input_buffer # << >> \/ c.output_buffer = << >>
              THEN p3_duplexing(c) ELSE c
    IN [c |-> [c1 EXCEPT !.output_buffer = SubSeq(@, 1, Len(@) - 1)],
        out |-> c1.output_buffer[Len(c1.output_buffer)]]

VARIABLES
    dc,               \* the DuplexChallengerVariable
    p3,               \* the reference challenger fed the same calls
    dc_out,           \* the element the last sample of dc returned
    p3_out,           \* the element the last sample of p3 returned
    sampled,          \* a sample has been asked for
    dcc,              \* the challenger dc.copy(builder) returned
    copied            \* calls made since copy(), -1 before it

challengerVars == << dc, p3, dc_out, p3_out, sampled, dcc, copied >>

ChallengerStart ==
    /\ dc = DuplexChallengerVariable_new
    /\ p3 = p3_new
    /\ dc_out = NoFelt
    /\ p3_out = NoFelt
    /\ sampled = FALSE
    /\ dcc = DuplexChallengerVariable_new
    /\ copied = -1

(* ------------------ the fill pass over the registry ------------------- *)
\* The chips whose event lists the run starts with.
EventChips == {"cpu", "divrem", "mul", "bytes"}

ChipNames == {RegistryOrder[k] : k \in 1..Len(RegistryOrder)}

\* The event lists generate_trace of a chip appends derived events to: the
\* division chip has its results checked by multiplication events, and
\* every chip but the byte-lookup chip records byte lookups.
Emits(chip) ==
    IF chip = "divrem" THEN {"mul", "bytes"}
    ELSE IF chip = "bytes" THEN {}
    ELSE {"bytes"}

VARIABLES
    f_i,              \* index of the fill loop over the whole registry
    f_len,            \* length of each chip's event list in the segment
    f_read,           \* length of its list each chip found when it ran
    f_src             \* the lengths the call started with

fillVars == << f_i, f_len, f_read, f_src >>

FillState(src) ==
    /\ f_i = 1
    /\ f_src = src
    /\ f_len = [c \in ChipNames |-> IF c \in EventChips THEN src[c] ELSE 0]
    /\ f_read = [c \in ChipNames |-> -1]

(* ------------------- ecrecover (zkvm/lib secp256k1) ------------------- *)
\* Scalars are the integers modulo CurveOrder.  A point is written by its
\* discrete logarithm to the generator, 0 being the point at infinity, so
\* the group law is addition modulo CurveOrder.
Scalars == 0..(CurveOrder - 1)

SMul(a, b) == (a * b) % CurveOrder

\* Scalar::invert
Invert(x) ==
    IF \E t \in Scalars : SMul(t, x) = 1
    THEN CHOOSE t \in Scalars : SMul(t, x) = 1
    ELSE 0

\* const GENERATOR
GENERATOR == 1

\* The group law (k256's arithmetic, complete).
GroupAdd(P, Q) == (P + Q) % CurveOrder

\* An AffinePoint is a pair of coordinates: it is never the point at
\* infinity.
AffinePoints == Scalars \ {0}

\* What an addition or doubling syscall leaves behind on operands the
\* affine formulas are not defined for: some affine point, or -1 for a
\* call that does not return.
DegenerateOutcomes == AffinePoints \cup {-1}

\* Secp256k1Operations::add_assign: syscall_secp256k1_add, the chord
\* addition of two affine points.  Equal operands (the chord is a tangent)
\* and opposite operands (the sum is the point at infinity) are outside
\* the formula and give deg.
PointAdd(P, Q, deg) ==
    IF P = 0 \/ Q = 0 \/ P = Q \/ GroupAdd(P, Q) = 0 THEN deg
    ELSE GroupAdd(P, Q)

\* Secp256k1Operations::double: syscall_secp256k1_double, the tangent
\* doubling of an affine point; a point whose double is the point at
\* infinity gives deg.
PointDouble(P, deg) ==
    IF P = 0 \/ GroupAdd(P, P) = 0 THEN deg ELSE GroupAdd(P, P)

\* The x coordinate of a point as a scalar: equal for P and -P.
XCoord(P) == (P * P) % CurveOrder

\* The y coordinate of P is odd.
IsOdd(P) == P % 2 = 1

\* Scalar::to_le_bits
ToLeBits(a) == [k \in 1..ScalarBits |-> (a \div (2 ^ (k - 1))) % 2 = 1]

NoPoint == [some |-> FALSE, pt |-> 0]

SomePoint(P) == [some |-> TRUE, pt |-> P]

\* The call did not return: a syscall inside it did not.
NoReturn == [some |-> FALSE, pt |-> -1]

RECURSIVE DoubleAndAddLoop(_, _, _, _, _, _, _)
\* The loop of double_and_add_base from bit k on.
DoubleAndAddLoop(k, res, temp_A, temp_B, a_bits, b_bits, deg) ==
    IF k > ScalarBits THEN res
    ELSE LET r1 == IF a_bits[k]
                   THEN IF res.some
                        THEN SomePoint(PointAdd(res.pt, temp_A, deg))
                        ELSE SomePoint(temp_A)
                   ELSE res
             r2 == IF b_bits[k] /\ r1.pt # -1
                   THEN IF r1.some
                        THEN SomePoint(PointAdd(r1.pt, temp_B, deg))
                        ELSE SomePoint(temp_B)
                   ELSE r1
             dA == PointDouble(temp_A, deg)
             dB == PointDouble(temp_B, deg)
         IN IF r2.pt = -1 \/ dA = -1 \/ dB = -1 THEN NoReturn
            ELSE DoubleAndAddLoop(k + 1, r2, dA, dB, a_bits, b_bits, deg)

\* double_and_add_base(a, A, b, B); deg is what the syscalls give on
\* operands outside their formulas.
double_and_add_base(a, A, b, B, deg) ==
    DoubleAndAddLoop(1, NoPoint, A, B, ToLeBits(a), ToLeBits(b), deg)

NoScalar == [some |-> FALSE, val |-> 0]

SomeScalar(x) == [some |-> TRUE, val |-> x]

\* What a call of verify_signature does: its verdict ("true", "false", or
\* "abort" for a panic) and the inverse it multiplied z and r by, if any.
Verdict(v, used) == [verdict |-> v, used |-> used]

\* verify_signature, target zkvm: assert_eq!(s_inv * s, ONE) on a supplied
\* inverse, u1 = z * s_inv, u2 = r * s_inv, res = u1*G + u2*pubkey
\* (unwrap), r == x(res).
verify_signature_zkvm(pubkey, z, sig, s_inverse, deg) ==
    IF s_inverse.some /\ SMul(s_inverse.val, sig.s) # 1
    THEN Verdict("abort", NoScalar)
    ELSE LET s_inv == IF s_inverse.some THEN s_inverse.val
                      ELSE Invert(sig.s)
             u1 == SMul(z, s_inv)
             u2 == SMul(sig.r, s_inv)
             res == double_and_add_base(u1, GENERATOR, u2, pubkey, deg)
         IN IF ~res.some THEN Verdict("abort", SomeScalar(s_inv))
            ELSE Verdict(IF sig.r = XCoord(res.pt) THEN "true" ELSE "false",
                         SomeScalar(s_inv))

\* verify_signature, any other target: PublicKey::from_sec1_bytes, then
\* VerifyingKey::verify_prehash; s_inverse is not read.
verify_signature_host(pubkey, z, sig, s_inverse) ==
    IF pubkey = 0 THEN Verdict("false", NoScalar)
    ELSE LET w == Invert(sig.s)
             R == GroupAdd(SMul(z, w) * GENERATOR, SMul(sig.r, w) * pubkey)
         IN Verdict(IF R # 0 /\ sig.r = XCoord(R) THEN "true" ELSE "false",
                    NoScalar)

\* verify_signature under cfg_if(target_os = "zkvm").
verify_signature(target_zkvm, pubkey, z, sig, s_inverse, deg) ==
    IF target_zkvm THEN verify_signature_zkvm(pubkey, z, sig, s_inverse, deg)
    ELSE verify_signature_host(pubkey, z, sig, s_inverse)

\* A compressed key: the tag byte and the x coordinate.
CompressedKeys == [tag : {2, 3, 4}, x : Scalars]

\* decompress_pubkey: "Ok" with the point of that x whose y has the parity
\* the tag names, "Err" for another tag or (host) an x of no point, "abort"
\* where the decompress syscall is given an x of no point.
decompress_pubkey(target_zkvm, ck) ==
    LET cands == {P \in Scalars \ {0} :
                     XCoord(P) = ck.x /\ (IsOdd(P) <=> ck.tag = 3)}
    IN IF ck.tag \notin {2, 3} THEN [kind |-> "Err", key |-> 0]
       ELSE IF cands = {}
            THEN [kind |-> IF target_zkvm THEN "abort" ELSE "Err", key |-> 0]
            ELSE [kind |-> "Ok", key |-> CHOOSE P \in cands : TRUE]

\* ecrecover's last statement with the test dropped.
EcReturn_Always(verified, pubkey) == [kind |-> "Ok", key |-> pubkey]

\* if verified { Ok(pubkey) } else { Err(anyhow!(..)) }
EcReturn(verified, pubkey) ==
    IF verified THEN [kind |-> "Ok", key |-> pubkey]
    ELSE [kind |-> "Err", key |-> 0]

VARIABLES
    zkvm,             \* the build targets the zkvm
    e_pc,             \* position of the ecrecover call
    e_sig,            \* the (r, s) of sig[..64]
    e_z,              \* msg_hash as a scalar
    e_hint,           \* what unconstrained_ecrecover read: key and s_inverse
    e_pubkey,         \* the decompressed key
    e_call,           \* what the verify_signature call did
    e_result,         \* what ecrecover returned
    e_deg,            \* what the syscalls gave outside their formulas
    e_msm             \* a call of double_and_add_base and its result

ecVars == << zkvm, e_pc, e_sig, e_z, e_hint, e_pubkey, e_call, e_result,
             e_deg, e_msm >>

NoMsm == [a |-> 0, A |-> 0, b |-> 0, B |-> 0, res |-> NoPoint]

NoCall == [verdict |-> "none", used |-> NoScalar]

NoEcResult == [kind |-> "none", key |-> 0]

EcState(target_zkvm, sig, z) ==
    /\ zkvm = target_zkvm
    /\ e_pc = "start"
    /\ e_sig = sig
    /\ e_z = z
    /\ e_hint = [key |-> [tag |-> 2, x |-> 0], s_inv |-> 0]
    /\ e_pubkey = 0
    /\ e_call = NoCall
    /\ e_result = NoEcResult
    /\ e_deg = -1
    /\ e_msm = NoMsm

\* The state at a call of double_and_add_base(a, A, b, B) on the zkvm.
EcMsmState(a, A, b, B) ==
    /\ zkvm = TRUE
    /\ e_pc = "msm"
    /\ e_sig = [r |-> 1, s |-> 1]
    /\ e_z = 0
    /\ e_hint = [key |-> [tag |-> 2, x |-> 0], s_inv |-> 0]
    /\ e_pubkey = 0
    /\ e_call = NoCall
    /\ e_result = NoEcResult
    /\ e_deg = -1
    /\ e_msm = [a |-> a, A |-> A, b |-> b, B |-> B, res |-> NoPoint]

EcIdle == EcState(TRUE, [r |-> 1, s |-> 1], 0)

(* ------------- Fp12MulChip (core/src/syscall/precompiles/fp384) -------- *)
\* Field elements are the integers below FpModulus.  A BigUint is a
\* natural number; -1 stands for a computation that panicked, and every
\* operation on it is that panic.
FpElems == 0..(FpModulus - 1)

\* BigUint + BigUint: no reduction.
BigAdd(a, b) == IF a < 0 \/ b < 0 THEN -1 ELSE a + b

\* Fp12MulChipTrace::mul: (a * b) % &self.modulus
Fp12MulChipTrace_mul(a, b) ==
    IF a < 0 \/ b < 0 THEN -1 ELSE (a * b) % FpModulus

\* Fp12MulChipTrace::add: (a + b) % &self.modulus
Fp12MulChipTrace_add(a, b) ==
    IF a < 0 \/ b < 0 THEN -1 ELSE (a + b) % FpModulus

\* Fp12MulChipTrace::sub: (a - b) % &self.modulus.  The difference of two
\* BigUint panics when it would be negative.
Fp12MulChipTrace_sub(a, b) ==
    IF a < 0 \/ b < 0 \/ a < b THEN -1 ELSE (a - b) % FpModulus

\* The methods of the macro's receiver, by name.
Methods == {"mul", "add", "sub"}

Fp12MulChipTrace_call(m, a, b) ==
    IF m = "mul" THEN Fp12MulChipTrace_mul(a, b)
    ELSE IF m = "add" THEN Fp12MulChipTrace_add(a, b)
    ELSE Fp12MulChipTrace_sub(a, b)

\* The FieldOperation each method of Fp12MulChipTrace populates its column
\* with.
Fp12MulChipTrace_op(m) ==
    IF m = "mul" THEN "Mul" ELSE IF m = "add" THEN "Add" ELSE "Sub"

\* The FieldOperation each method of Fp12MulChipEval constrains its column
\* with.
Fp12MulChipEval_op(m) ==
    IF m = "mul" THEN "Mul" ELSE IF m = "add" THEN "Mul" ELSE "Mul"

\* An operand of sum_of_products: (sign tag, value).
Signed(s, x) == [sign |-> s, val |-> x]

\* sum_of_products_aux
sum_of_products_aux(b) ==
    LET b10 == b[3]
        b11 == b[4]
        b20 == b[5]
        b21 == b[6]
    IN [b10_p_b11 |-> Fp12MulChipTrace_add(b10, b11),
        b10_m_b11 |-> Fp12MulChipTrace_sub(b10, b11),
        b20_p_b21 |-> Fp12MulChipTrace_add(b20, b21),
        b20_m_b21 |-> Fp12MulChipTrace_sub(b20, b21)]

RECURSIVE SumLoop(_, _, _, _)
\* The loop "for (is_neg, dest, cur) in izip!(is_sub, dests,
\* products).skip(1)" from its k-th triple on: dests has five elements,
\* so the zip has five triples, (is_sub[i], dests[i], products[i]) for
\* i < 5, and skip(1) leaves i = 1..4 (k = 2..5 counting from 1).
SumLoop(k, sum_k, is_sub, products) ==
    IF k > 5 THEN sum_k
    ELSE LET t == IF is_sub[k]
                  THEN Fp12MulChipTrace_sub(sum_k, products[k])
                  ELSE Fp12MulChipTrace_add(sum_k, products[k])
         IN SumLoop(k + 1, BigAdd(sum_k, t), is_sub, products)

\* sum_of_products
sum_of_products(a, b) ==
    LET products == [i \in 1..6 |->
                        Fp12MulChipTrace_mul(a[i].val, b[i].val)]
        is_sub == [i \in 1..6 |-> a[i].sign # b[i].sign]
    IN SumLoop(2, products[1], is_sub, products)

\* fp6_mul
fp6_mul(a, b) ==
    LET a00 == a[1]
        a01 == a[2]
        a10 == a[3]
        a11 == a[4]
        a20 == a[5]
        a21 == a[6]
        b00 == b[1]
        b01 == b[2]
        b10 == b[3]
        b11 == b[4]
        b20 == b[5]
        b21 == b[6]
        aux == sum_of_products_aux(b)
        pos == << Signed(1, a00), Signed(1, a01), Signed(1, a10),
                  Signed(1, a11), Signed(1, a20), Signed(1, a21) >>
        alt == << Signed(1, a00), Signed(-1, a01), Signed(1, a10),
                  Signed(-1, a11), Signed(1, a20), Signed(-1, a21) >>
        c00 == sum_of_products(pos,
                  << Signed(1, b00), Signed(-1, b01),
                     Signed(1, aux.b20_m_b21), Signed(-1, aux.b20_p_b21),
                     Signed(1, aux.b10_m_b11), Signed(-1, aux.b10_p_b11) >>)
        c01 == sum_of_products(pos,
                  << Signed(1, b01), Signed(1, b00),
                     Signed(1, aux.b20_p_b21), Signed(1, aux.b20_m_b21),
                     Signed(1, aux.b10_p_b11), Signed(1, aux.b10_m_b11) >>)
        c10 == sum_of_products(alt,
                  << Signed(1, b10), Signed(1, b11), Signed(1, b00),
                     Signed(1, b01), Signed(1, aux.b20_m_b21),
                     Signed(1, aux.b20_p_b21) >>)
        c11 == sum_of_products(pos,
                  << Signed(1, b11), Signed(1, b10), Signed(1, b01),
                     Signed(1, b00), Signed(1, aux.b20_p_b21),
                     Signed(1, aux.b20_m_b21) >>)
        c20 == sum_of_products(alt,
                  << Signed(1, b20), Signed(1, b21), Signed(1, b10),
                     Signed(1, b11), Signed(1, b00), Signed(1, b01) >>)
        c21 == sum_of_products(pos,
                  << Signed(1, b21), Signed(1, b20), Signed(1, b11),
                     Signed(1, b10), Signed(1, b01), Signed(1, b00) >>)
    IN IF \E n \in DOMAIN aux : aux[n] < 0
       THEN [k \in 1..6 |-> -1]
       ELSE << c00, c01, c10, c11, c20, c21 >>

\* fp6_add
fp6_add(a, b) == [k \in 1..6 |-> Fp12MulChipTrace_add(a[k], b[k])]

\* fp6_sub
fp6_sub(a, b) == [k \in 1..6 |-> Fp12MulChipTrace_sub(a[k], b[k])]

\* fp6_mul_by_non_residue
fp6_mul_by_non_residue(a) ==
    << Fp12MulChipTrace_sub(a[5], a[6]), Fp12MulChipTrace_add(a[5], a[6]),
       a[1], a[2], a[3], a[4] >>

\* A step of the call panicked.
Panicked(v) == \E k \in DOMAIN v : v[k] < 0

\* fp12_mul: the result, the intermediate o, or a panic on the way.
fp12_mul(a, b) ==
    LET ac0 == SubSeq(a, 1, 6)
        ac1 == SubSeq(a, 7, 12)
        bc0 == SubSeq(b, 1, 6)
        bc1 == SubSeq(b, 7, 12)
        aa == fp6_mul(ac0, bc0)
        bb == fp6_mul(ac1, bc1)
        o == fp6_add(bc0, bc0)
        y1 == fp6_add(ac1, ac0)
        y2 == fp6_mul(y1, o)
        y3 == fp6_sub(y2, aa)
        y == fp6_sub(y3, bb)
        x1 == fp6_mul_by_non_residue(bb)
        x == fp6_add(x1, aa)
    IN IF \E v \in {aa, bb, o, y1, y2, y3, y, x1, x} : Panicked(v)
       THEN [panicked |-> TRUE, o |-> << >>, out |-> << >>]
       ELSE [panicked |-> FALSE, o |-> o, out |-> x \o y]

\* The arithmetic of the field and of its extensions Fp2 = Fp[u]/(u^2 + 1),
\* Fp6 = Fp2[v]/(v^3 - (1 + u)) the chip is to compute.
FpAdd(a, b) == (a + b) % FpModulus

FpNeg(a) == (FpModulus - (a % FpModulus)) % FpModulus

FpSub(a, b) == FpAdd(a, FpNeg(b))

FpMul(a, b) == (a * b) % FpModulus

Fp2Add(a, b) == << FpAdd(a[1], b[1]), FpAdd(a[2], b[2]) >>

Fp2Mul(a, b) ==
    << FpSub(FpMul(a[1], b[1]), FpMul(a[2], b[2])),
       FpAdd(FpMul(a[1], b[2]), FpMul(a[2], b[1])) >>

\* Multiplication of an Fp2 element by the non-residue 1 + u.
Fp2MulByNonResidue(a) == << FpSub(a[1], a[2]), FpAdd(a[1], a[2]) >>

Fp6Add(a, b) == [k \in 1..6 |-> FpAdd(a[k], b[k])]

Fp6Sub(a, b) == [k \in 1..6 |-> FpSub(a[k], b[k])]

Fp6Mul(a, b) ==
    LET a0 == SubSeq(a, 1, 2)
        a1 == SubSeq(a, 3, 4)
        a2 == SubSeq(a, 5, 6)
        b0 == SubSeq(b, 1, 2)
        b1 == SubSeq(b, 3, 4)
        b2 == SubSeq(b, 5, 6)
        c0 == Fp2Add(Fp2Mul(a0, b0),
                     Fp2MulByNonResidue(Fp2Add(Fp2Mul(a1, b2),
                                               Fp2Mul(a2, b1))))
        c1 == Fp2Add(Fp2Add(Fp2Mul(a0, b1), Fp2Mul(a1, b0)),
                     Fp2MulByNonResidue(Fp2Mul(a2, b2)))
        c2 == Fp2Add(Fp2Add(Fp2Mul(a0, b2), Fp2Mul(a1, b1)),
                     Fp2Mul(a2, b0))
    IN c0 \o c1 \o c2

\* Multiplication of an Fp6 element by v.
Fp6MulByNonResidue(a) ==
    Fp2MulByNonResidue(SubSeq(a, 5, 6)) \o SubSeq(a, 1, 4)

\* The signed sum of six products: the first enters with sign +, product i
\* with sign - exactly when the tags of a[i] and b[i] differ.
SignedSum(a, b) ==
    LET term(i) == IF i > 1 /\ a[i].sign # b[i].sign
                   THEN FpNeg(FpMul(a[i].val, b[i].val))
                   ELSE FpMul(a[i].val, b[i].val)
    IN FpAdd(FpAdd(FpAdd(term(1), term(2)), FpAdd(term(3), term(4))),
             FpAdd(term(5), term(6)))

\* ExecutionRecord::default(), of its event lists the two the chip names.
NoEvents == [fp12_mul_events |-> << >>, fp_mul_events |-> << >>]

\* Fp12MulChip::included
included(shard) == shard.fp_mul_events # << >>

\* The inputs the functions are called on: vectors over the field with at
\* most one non-zero entry, and with at most two.
Units(n) ==
    {[k \in 1..n |-> IF k = i THEN c ELSE 0] : i \in 1..n, c \in FpElems}

Sparse(n) ==
    Units(n) \cup
    {[k \in 1..n |-> IF k = ij[1] THEN c ELSE IF k = ij[2] THEN d ELSE 0] :
        ij \in {p \in (1..n) \X (1..n) : p[1] < p[2]},
        c \in FpElems \ {0}, d \in FpElems \ {0}}

\* The sign tags fp6_mul passes to sum_of_products.
SignTags ==
    {[k \in 1..6 |-> 1], [k \in 1..6 |-> IF k % 2 = 0 THEN -1 ELSE 1]}

VARIABLES
    fp_pc,            \* position of the call under study
    fp_op,            \* a field-operation step: method, operands, result,
                      \* the operation populated and the one constrained
    fp_sop,           \* a call of sum_of_products and its result
    fp_mul,           \* a call of fp12_mul and its result
    fp_rec,           \* the shard's record: the event lists
    fp_shard          \* what the machine did with the chip for the shard

fpVars == << fp_pc, fp_op, fp_sop, fp_mul, fp_rec, fp_shard >>

NoOp == [m |-> "none", a |-> 0, b |-> 0, val |-> 0,
         populated |-> "none", constrained |-> "none"]

NoSop == [a |-> << >>, b |-> << >>, val |-> 0]

NoMul == [a |-> << >>, b |-> << >>,
          res |-> [panicked |-> FALSE, o |-> << >>, out |-> << >>]]

NoShard == [asked |-> FALSE, included |-> FALSE, rows |-> 0]

FpStart ==
    /\ fp_pc = "start"
    /\ fp_op = NoOp
    /\ fp_sop = NoSop
    /\ fp_mul = NoMul
    /\ fp_rec = NoEvents
    /\ fp_shard = NoShard

FpIdle == FpStart

asideVars == << challengerVars, fillVars, ecVars, fpVars >>

proverVars == << segment, global_segment, fill_i, commit_task, main_datas,
                 challenger, obs_i, prove_task, p_clone, local_proofs,
                 global_main_data, p_gclone, global_proof >>

verifierVars == << tamper, v_challenger, segments_proofs, v_global_proof,
                   v_obs_i, v_i, v_clone, v_chips, v_gclone, sum, result >>

vars == << perf, pc, proverVars, verifierVars, asideVars >>

Seeds == {"s0", "s1"}

\* A challenger as constructed by the caller, nothing observed yet.
NewChallenger(seed) == [seed |-> seed, observed |-> << >>]

NoClone == [seed |-> "none", observed |-> << >>]

NoData == [traces |-> << >>, main_commit |-> [digest |-> << >>, flip |-> 0],
           main_data |-> << >>, n |-> 0]

NoProof == [main_commit |-> [digest |-> << >>, flip |-> 0], n |-> 0,
            opened |-> << >>, opens |-> [digest |-> << >>, flip |-> 0],
            challenges |-> Challenges(NoClone), commulative_sums |-> << >>]

NoTamper == [kind |-> "none", at |-> 0]

\* The state at the call of prove: build p, event counts ev, and the seeds
\* of the challengers prove and verify are called with.
RuntimeState(p, ev, s1, s2) ==
    /\ perf = p
    /\ pc = "fill"
    /\ segment = [events |-> ev, derived |-> << >>]
    /\ global_segment =
          [balance |-> FNeg(LocalTotal([events |-> ev], NUM_CHIPS))]
    /\ fill_i = 1
    /\ commit_task = [i \in Chips |-> "idle"]
    /\ main_datas = [i \in Chips |-> NoData]
    /\ challenger = NewChallenger(s1)
    /\ obs_i = 1
    /\ prove_task = [i \in Chips |-> "idle"]
    /\ p_clone = [i \in Chips |-> NoClone]
    /\ local_proofs = [i \in Chips |-> NoProof]
    /\ global_main_data = NoData
    /\ p_gclone = NoClone
    /\ global_proof = NoProof
    /\ tamper = NoTamper
    /\ v_challenger = NewChallenger(s2)
    /\ segments_proofs = << >>
    /\ v_global_proof = NoProof
    /\ v_obs_i = 1
    /\ v_i = 1
    /\ v_clone = << >>
    /\ v_chips = << >>
    /\ v_gclone = NoClone
    /\ sum = 0
    /\ result = NoResult

\* A prove / verify call that is not the one under study.
RuntimeIdle ==
    RuntimeState(TRUE, [i \in Chips |-> 1], "s0", "s0")

ChallengerIdle == ChallengerStart

FillIdle == FillState([c \in EventChips |-> 0])

Init ==
    /\ \E p \in BOOLEAN, ev \in [Chips -> 0..MaxShards], s1, s2 \in Seeds :
          RuntimeState(p, ev, s1, s2)
    /\ ChallengerIdle
    /\ FillIdle
    /\ EcIdle
    /\ FpIdle

(* --------------------------- Runtime::prove --------------------------- *)
\* chips.iter().for_each(|chip| chip.generate_trace(&mut self.segment)):
\* one iteration; the chip appends its derived events to the segment.
FillStep ==
    /\ pc = "fill"
    /\ fill_i <= NUM_CHIPS
    /\ segment' = [segment EXCEPT
                     !.derived = Append(@, segment_chips[fill_i])]
    /\ fill_i' = fill_i + 1
    /\ pc' = IF fill_i = NUM_CHIPS THEN "commit" ELSE "fill"
    /\ UNCHANGED << asideVars, perf, global_segment, commit_task, main_datas, challenger,
                    obs_i, prove_task, p_clone, local_proofs,
                    global_main_data, p_gclone, global_proof, verifierVars >>

\* CommitClosure committing the first trace only while n counts the shards.
CommitClosure_FirstTrace(i, seg) ==
    LET shards == Shard(i, seg)
        n == Len(shards)
        traces == [k \in 1..Min(n, 1) |-> GenerateTrace(shards[k])]
        cb == CommitBatches(traces)
    IN [traces |-> traces, main_commit |-> cb.commit,
        main_data |-> cb.data, n |-> n]

\* CommitClosure collecting the traces last shard first.
CommitClosure_Reversed(i, seg) ==
    LET shards == Shard(i, seg)
        n == Len(shards)
        traces == [k \in 1..n |-> GenerateTrace(shards[n + 1 - k])]
        cb == CommitBatches(traces)
    IN [traces |-> traces, main_commit |-> cb.commit,
        main_data |-> cb.data, n |-> n]

\* The closure of the commit par_iter for chip i: shard, trace, commit.
CommitClosure(i, seg) ==
    LET shards == Shard(i, seg)
        n == Len(shards)
        traces == [k \in 1..n |-> GenerateTrace(shards[k])]
        cb == CommitBatches(traces)
    IN [traces |-> traces, main_commit |-> cb.commit,
        main_data |-> cb.data, n |-> n]

\* A worker picks up the commit task of chip i.
CommitStart(i) ==
    /\ pc = "commit"
    /\ commit_task[i] = "idle"
    /\ commit_task' = [commit_task EXCEPT ![i] = "running"]
    /\ UNCHANGED << asideVars, perf, pc, segment, global_segment, fill_i, main_datas,
                    challenger, obs_i, prove_task, p_clone, local_proofs,
                    global_main_data, p_gclone, global_proof, verifierVars >>

\* CommitDone with generate_trace applied to the segment itself instead of
\* a shard copy: the parallel task writes the shared record.
CommitDone_WritesSegment(i) ==
    /\ pc = "commit"
    /\ commit_task[i] = "running"
    /\ commit_task' = [commit_task EXCEPT ![i] = "done"]
    /\ main_datas' = [main_datas EXCEPT ![i] = CommitClosure(i, segment)]
    /\ segment' = [segment EXCEPT !.derived = Append(@, segment_chips[i])]
    /\ UNCHANGED << asideVars, perf, pc, global_segment, fill_i, challenger,
                    obs_i, prove_task, p_clone, local_proofs,
                    global_main_data, p_gclone, global_proof, verifierVars >>

\* The commit task of chip i finishes; collect() puts its MainData at i.
CommitDone(i) ==
    /\ pc = "commit"
    /\ commit_task[i] = "running"
    /\ commit_task' = [commit_task EXCEPT ![i] = "done"]
    /\ main_datas' = [main_datas EXCEPT ![i] = CommitClosure(i, segment)]
    /\ UNCHANGED << asideVars, perf, pc, segment, global_segment, fill_i, challenger,
                    obs_i, prove_task, p_clone, local_proofs,
                    global_main_data, p_gclone, global_proof, verifierVars >>

\* CommitJoined that waits for one task only.
CommitJoined_Any == \E i \in Chips : commit_task[i] = "done"

\* collect::<Vec<_>>() of the commit map returns: every task has finished.
CommitJoined == \A i \in Chips : commit_task[i] = "done"

CommitJoin ==
    /\ pc = "commit"
    /\ CommitJoined
    /\ pc' = "observe"
    /\ UNCHANGED << asideVars, perf, proverVars, verifierVars >>

\* One iteration of main_datas.iter().for_each(|md| challenger.observe(..)).
ObserveStep ==
    /\ pc = "observe"
    /\ obs_i <= NUM_CHIPS
    /\ challenger' = Observe(challenger, main_datas[obs_i].main_commit)
    /\ obs_i' = obs_i + 1
    /\ pc' = IF obs_i = NUM_CHIPS THEN "prove_local" ELSE "observe"
    /\ UNCHANGED << asideVars, perf, segment, global_segment, fill_i, commit_task,
                    main_datas, prove_task, p_clone, local_proofs,
                    global_main_data, p_gclone, global_proof, verifierVars >>

\* A worker picks up the proving task of chip i and clones the challenger.
ProveStart(i) ==
    /\ pc = "prove_local"
    /\ prove_task[i] = "idle"
    /\ prove_task' = [prove_task EXCEPT ![i] = "running"]
    /\ p_clone' = [p_clone EXCEPT ![i] = challenger]
    /\ UNCHANGED << asideVars, perf, pc, segment, global_segment, fill_i, commit_task,
                    main_datas, challenger, obs_i, local_proofs,
                    global_main_data, p_gclone, global_proof, verifierVars >>

\* ProveDone with the sub-protocol run on the live challenger instead of a
\* clone: the task samples from, and observes its commitment into, the
\* shared transcript.
ProveDone_Shared(i) ==
    /\ pc = "prove_local"
    /\ prove_task[i] = "running"
    /\ prove_task' = [prove_task EXCEPT ![i] = "done"]
    /\ local_proofs' = [local_proofs EXCEPT ![i] =
          ProverProve(challenger, ChipsV2(i, main_datas[i].n), main_datas[i])]
    /\ challenger' = Observe(challenger, main_datas[i].main_commit)
    /\ UNCHANGED << asideVars, perf, pc, segment, global_segment, fill_i, commit_task,
                    main_datas, obs_i, p_clone,
                    global_main_data, p_gclone, global_proof, verifierVars >>

\* ProveDone with the proofs collected in the order the tasks finish: the
\* proof goes to the first free position of the result.
ProveDone_ByCompletion(i) ==
    /\ pc = "prove_local"
    /\ prove_task[i] = "running"
    /\ prove_task' = [prove_task EXCEPT ![i] = "done"]
    /\ LET slot == CHOOSE s \in Chips :
                      /\ local_proofs[s] = NoProof
                      /\ \A t \in 1..(s - 1) : local_proofs[t] # NoProof
       IN local_proofs' = [local_proofs EXCEPT ![slot] =
             ProverProve(p_clone[i], ChipsV2(i, main_datas[i].n),
                         main_datas[i])]
    /\ UNCHANGED << asideVars, perf, pc, segment, global_segment, fill_i, commit_task,
                    main_datas, challenger, obs_i, p_clone,
                    global_main_data, p_gclone, global_proof, verifierVars >>

\* The proving task of chip i finishes.  After Prover::prove the closure
\* prints chips_v2[0].name() (line 183): on an empty chips_v2 the index
\* panics and the panic of the task is the panic of prove.  Otherwise
\* collect() puts the proof at i.
ProveDone(i) ==
    /\ pc = "prove_local"
    /\ prove_task[i] = "running"
    /\ IF ChipsV2(i, main_datas[i].n) = << >>
       THEN /\ prove_task' = [prove_task EXCEPT ![i] = "panicked"]
            /\ pc' = "panicked"
            /\ UNCHANGED local_proofs
       ELSE /\ prove_task' = [prove_task EXCEPT ![i] = "done"]
            /\ local_proofs' = [local_proofs EXCEPT ![i] =
                  ProverProve(p_clone[i], ChipsV2(i, main_datas[i].n),
                              main_datas[i])]
            /\ UNCHANGED pc
    /\ UNCHANGED << asideVars, perf, segment, global_segment, fill_i, commit_task,
                    main_datas, challenger, obs_i, p_clone,
                    global_main_data, p_gclone, global_proof, verifierVars >>

\* ProveJoined that waits for one task only.
ProveJoined_Any == \E i \in Chips : prove_task[i] = "done"

\* collect::<Vec<_>>() of the proving map returns: every task has finished.
ProveJoined == \A i \in Chips : prove_task[i] = "done"

ProveJoin ==
    /\ pc = "prove_local"
    /\ ProveJoined
    /\ pc' = "global_commit"
    /\ UNCHANGED << asideVars, perf, proverVars, verifierVars >>

\* Prover::commit_main(config, &global_chips, &mut self.global_segment)
GlobalCommit ==
    /\ pc = "global_commit"
    /\ global_main_data' = CommitMain(global_chips, global_segment)
    /\ pc' = "global_prove"
    /\ UNCHANGED << asideVars, perf, segment, global_segment, fill_i, commit_task,
                    main_datas, challenger, obs_i, prove_task, p_clone,
                    local_proofs, p_gclone, global_proof, verifierVars >>

\* Prover::prove(config, &mut challenger.clone(), &global_chips, ..) and
\* the return of (local_proofs, global_proof).
GlobalProve ==
    /\ pc = "global_prove"
    /\ p_gclone' = challenger
    /\ global_proof' = ProverProve(challenger, global_chips, global_main_data)
    /\ pc' = "proved"
    /\ UNCHANGED << asideVars, perf, segment, global_segment, fill_i, commit_task,
                    main_datas, challenger, obs_i, prove_task, p_clone,
                    local_proofs, global_main_data, verifierVars >>

(* ------------------ the proofs on their way to verify ----------------- *)
\* The Vec returned by prove, as the slice handed to verify.
ReturnedProofs == [i \in 1..NUM_CHIPS |-> local_proofs[i]]

HandOver(ps, gp, what) ==
    /\ pc = "proved"
    /\ segments_proofs' = ps
    /\ v_global_proof' = gp
    /\ tamper' = what
    /\ pc' = "verify_observe"
    /\ UNCHANGED << asideVars, perf, proverVars, v_challenger, v_obs_i, v_i, v_clone,
                    v_chips, v_gclone, sum, result >>

\* The caller passes what prove returned.
PassProofs == HandOver(ReturnedProofs, global_proof, NoTamper)

\* One local proof's main commitment is replaced by a different value.
TamperCommit(j) ==
    HandOver([ReturnedProofs EXCEPT ![j].main_commit = Flip(@)],
             global_proof, [kind |-> "commit", at |-> j])

\* One local proof's shard count n is replaced by m.
TamperN(j, m) ==
    /\ m # local_proofs[j].n
    /\ HandOver([ReturnedProofs EXCEPT ![j].n = m],
                global_proof, [kind |-> "n", at |-> j])

\* One cumulative-sum scalar of a local proof is replaced by v.
TamperSum(j, k, v) ==
    /\ k \in DOMAIN local_proofs[j].commulative_sums
    /\ v # local_proofs[j].commulative_sums[k]
    /\ HandOver([ReturnedProofs EXCEPT ![j].commulative_sums[k] = v],
                global_proof, [kind |-> "sum", at |-> j])

\* One cumulative-sum scalar of the global proof is replaced by v.
TamperGlobalSum(k, v) ==
    /\ k \in DOMAIN global_proof.commulative_sums
    /\ v # global_proof.commulative_sums[k]
    /\ HandOver(ReturnedProofs,
                [global_proof EXCEPT !.commulative_sums[k] = v],
                [kind |-> "sum", at |-> NUM_CHIPS + 1])

\* The slice is cut to its first m proofs, or given one proof too many.
ResizeSlice(m) ==
    /\ m # NUM_CHIPS
    /\ HandOver([i \in 1..m |-> local_proofs[Min(i, NUM_CHIPS)]],
                global_proof, [kind |-> "resize", at |-> m])

\* Several components are invalid at once: the local proof of chip j opens
\* another commitment than the one it carries, every later local proof
\* opens values of another chip, the global proof (g) opens another
\* commitment, and the first global cumulative sum is off by d.
CorruptSeveral(j, g, d) ==
    LET ps == [k \in 1..NUM_CHIPS |->
                 IF k < j THEN local_proofs[k]
                 ELSE IF k = j
                      THEN [local_proofs[k] EXCEPT !.opens = Flip(@)]
                      ELSE [local_proofs[k] EXCEPT
                               !.opened = [x \in DOMAIN @ |-> "corrupt"]]]
        gp1 == IF g THEN [global_proof EXCEPT !.opens = Flip(@)]
               ELSE global_proof
        gp == [gp1 EXCEPT !.commulative_sums[1] = FAdd(@, d)]
    IN HandOver(ps, gp, [kind |-> "several", at |-> j])

RECURSIVE ObserveAll(_, _)
\* The challenger after observing every commitment of cs, in order.
ObserveAll(ch, cs) ==
    IF cs = << >> THEN ch ELSE ObserveAll(Observe(ch, Head(cs)), Tail(cs))

MainCommits(ps) == [i \in 1..Len(ps) |-> ps[i].main_commit]

\* A prover of its own: it runs the sub-protocols for the first m chips (one
\* chip twice when m = NUM_CHIPS + 1) and for a global segment whose balance
\* is off by delta, against the transcript a verifier starting from
\* v_challenger reaches with (obs) or without observing the m commitments.
Forge(m, obs, delta) ==
    LET at(i) == Min(i, NUM_CHIPS)
        cs == [i \in 1..m |-> main_datas[at(i)].main_commit]
        t == IF obs THEN ObserveAll(v_challenger, cs) ELSE v_challenger
        ps == [i \in 1..m |->
                 ProverProve(t, ChipsV2(at(i), main_datas[at(i)].n),
                             main_datas[at(i)])]
        gseg == [balance |-> FAdd(FNeg(SumOfProofs(ps)), delta)]
        gp == ProverProve(t, global_chips, CommitMain(global_chips, gseg))
    IN HandOver(ps, gp, [kind |-> "forge", at |-> m])

(* -------------------------- Runtime::verify --------------------------- *)
\* One iteration of the loop under #[cfg(feature = "perf")]:
\* segments_proofs.iter().for_each(|proof| challenger.observe(..)).
VerifyObserve ==
    /\ pc = "verify_observe"
    /\ perf
    /\ v_obs_i <= Len(segments_proofs)
    /\ v_challenger' =
          Observe(v_challenger, segments_proofs[v_obs_i].main_commit)
    /\ v_obs_i' = v_obs_i + 1
    /\ UNCHANGED << asideVars, perf, pc, proverVars, tamper, segments_proofs,
                    v_global_proof, v_i, v_clone, v_chips, v_gclone, sum,
                    result >>

\* The observe loop is over, or was not compiled in.
VerifyObserveEnd ==
    /\ pc = "verify_observe"
    /\ (~perf \/ v_obs_i > Len(segments_proofs))
    /\ pc' = "verify_local"
    /\ UNCHANGED << asideVars, perf, proverVars, verifierVars >>

\* Number of iterations of segment_chips.into_iter().zip(segments_proofs).
ZipLen(ps) == Min(NUM_CHIPS, Len(ps))

\* VerifyLocal without the "?": a failed check is dropped and the loop goes
\* on with the next chip.
VerifyLocal_SkipFailed ==
    /\ pc = "verify_local"
    /\ v_i <= ZipLen(segments_proofs)
    /\ v_clone' = Append(v_clone, v_challenger)
    /\ v_chips' = Append(v_chips, ChipsV2(v_i, segments_proofs[v_i].n))
    /\ v_i' = v_i + 1
    /\ UNCHANGED << asideVars, perf, pc, result, proverVars, tamper, v_challenger,
                    segments_proofs, v_global_proof, v_obs_i, v_gclone,
                    sum >>

\* One iteration of the zip loop: build chips_v2, Verifier::verify on a
\* clone, map_err and "?".
VerifyLocal ==
    /\ pc = "verify_local"
    /\ v_i <= ZipLen(segments_proofs)
    /\ LET proof == segments_proofs[v_i]
           chips_v2 == ChipsV2(v_i, proof.n)
           r == VerifierVerify(chips_v2, v_challenger, proof)
       IN /\ v_clone' = Append(v_clone, v_challenger)
          /\ v_chips' = Append(v_chips, chips_v2)
          /\ IF r = "Ok"
             THEN /\ v_i' = v_i + 1
                  /\ UNCHANGED << pc, result >>
             ELSE /\ result' = SegmentFailure(v_i, r)
                  /\ pc' = "done"
                  /\ UNCHANGED v_i
    /\ UNCHANGED << asideVars, perf, proverVars, tamper, v_challenger, segments_proofs,
                    v_global_proof, v_obs_i, v_gclone, sum >>

\* The zip loop is exhausted.
VerifyLocalEnd ==
    /\ pc = "verify_local"
    /\ v_i > ZipLen(segments_proofs)
    /\ pc' = "verify_global"
    /\ UNCHANGED << asideVars, perf, proverVars, verifierVars >>

\* Verifier::verify(config, &global_chips, &mut challenger.clone(),
\* global_proof), map_err and "?".
VerifyGlobal ==
    /\ pc = "verify_global"
    /\ v_gclone' = v_challenger
    /\ LET r == VerifierVerify(global_chips, v_challenger, v_global_proof)
       IN IF r = "Ok"
          THEN /\ pc' = "verify_sum"
               /\ UNCHANGED result
          ELSE /\ result' = MapGlobalErr(r)
               /\ pc' = "done"
    /\ UNCHANGED << asideVars, perf, proverVars, tamper, v_challenger, segments_proofs,
                    v_global_proof, v_obs_i, v_i, v_clone, v_chips, sum >>

\* "let mut sum = zero(); #[cfg(feature = "perf")] { sum += ... }".
CumulativeSum(feature, ps, gp) ==
    IF feature
    THEN FAdd(SumOfProofs(ps), FSum(gp.commulative_sums))
    ELSE 0

\* "match sum.is_zero() { true => Ok(()), false => Err(NonZero..) }".
VerifySum ==
    /\ pc = "verify_sum"
    /\ sum' = CumulativeSum(perf, segments_proofs, v_global_proof)
    /\ result' = IF sum' = 0 THEN OkResult ELSE NonZeroCommulativeSum
    /\ pc' = "done"
    /\ UNCHANGED << asideVars, perf, proverVars, tamper, v_challenger, segments_proofs,
                    v_global_proof, v_obs_i, v_i, v_clone, v_chips,
                    v_gclone >>

(* --------------------------- specification ---------------------------- *)
Next ==
    \/ FillStep
    \/ \E i \in Chips : CommitStart(i)
    \/ \E i \in Chips : CommitDone(i)
    \/ CommitJoin
    \/ ObserveStep
    \/ \E i \in Chips : ProveStart(i)
    \/ \E i \in Chips : ProveDone(i)
    \/ ProveJoin
    \/ GlobalCommit
    \/ GlobalProve
    \/ PassProofs
    \/ \E j \in Chips : TamperCommit(j)
    \/ \E j \in Chips, m \in 0..(MaxShards + 1) : TamperN(j, m)
    \/ \E j \in Chips, k \in 1..MaxShards, v \in 0..(FieldOrder - 1) :
          TamperSum(j, k, v)
    \/ \E k \in 1..Len(global_chips), v \in 0..(FieldOrder - 1) :
          TamperGlobalSum(k, v)
    \/ \E m \in 0..(NUM_CHIPS + 1) : ResizeSlice(m)
    \/ \E m \in 0..(NUM_CHIPS + 1), obs \in BOOLEAN,
          delta \in 0..(FieldOrder - 1) : Forge(m, obs, delta)
    \/ \E j \in 1..(NUM_CHIPS + 1), g \in BOOLEAN,
          d \in 0..(FieldOrder - 1) : CorruptSeveral(j, g, d)
    \/ VerifyObserve
    \/ VerifyObserveEnd
    \/ VerifyLocal
    \/ VerifyLocalEnd
    \/ VerifyGlobal
    \/ VerifySum

Spec == Init /\ [][Next]_vars

(* ------------- the challenger against its reference ------------------- *)
Felts == 1..MaxFelt

\* A panic ends the program; after copy() the run goes on for MaxCopyOps
\* calls.
ChRunning == ~dc.panicked /\ ~dcc.panicked /\ copied < MaxCopyOps

ChTick == copied' = IF copied >= 0 THEN copied + 1 ELSE copied

\* challenger.observe(builder, v) on the variable, challenger.observe(v)
\* on the reference.
ChObserve(v) ==
    /\ ChRunning
    /\ dc' = observe(dc, Const(v))
    /\ p3' = p3_observe(p3, Const(v))
    /\ ChTick
    /\ UNCHANGED << dc_out, p3_out, sampled, dcc >>
    /\ UNCHANGED << perf, pc, proverVars, verifierVars, fillVars, ecVars,
                    fpVars >>

\* challenger.sample(builder) on the variable, challenger.sample() on the
\* reference.
ChSample ==
    /\ ChRunning
    /\ LET r == sample(dc)
           q == p3_sample(p3)
       IN /\ dc' = r.c
          /\ dc_out' = r.out
          /\ p3' = q.c
          /\ p3_out' = q.out
    /\ sampled' = TRUE
    /\ ChTick
    /\ UNCHANGED dcc
    /\ UNCHANGED << perf, pc, proverVars, verifierVars, fillVars, ecVars,
                    fpVars >>

\* challenger.duplexing(builder), the method being public.
ChDuplexing ==
    /\ ChRunning
    /\ dc' = duplexing(dc)
    /\ ChTick
    /\ UNCHANGED << p3, dc_out, p3_out, sampled, dcc >>
    /\ UNCHANGED << perf, pc, proverVars, verifierVars, fillVars, ecVars,
                    fpVars >>

\* let copy = challenger.copy(builder)
ChCopy ==
    /\ ChRunning
    /\ copied = -1
    /\ dcc' = copy(dc)
    /\ copied' = 0
    /\ UNCHANGED << dc, p3, dc_out, p3_out, sampled >>
    /\ UNCHANGED << perf, pc, proverVars, verifierVars, fillVars, ecVars,
                    fpVars >>

\* copy.observe(builder, v)
CopyObserve(v) ==
    /\ ChRunning
    /\ copied >= 0
    /\ dcc' = observe(dcc, Const(v))
    /\ ChTick
    /\ UNCHANGED << dc, p3, dc_out, p3_out, sampled >>
    /\ UNCHANGED << perf, pc, proverVars, verifierVars, fillVars, ecVars,
                    fpVars >>

\* copy.sample(builder)
CopySample ==
    /\ ChRunning
    /\ copied >= 0
    /\ dcc' = sample(dcc).c
    /\ ChTick
    /\ UNCHANGED << dc, p3, dc_out, p3_out, sampled >>
    /\ UNCHANGED << perf, pc, proverVars, verifierVars, fillVars, ecVars,
                    fpVars >>

InitChallenger ==
    RuntimeIdle /\ ChallengerStart /\ FillIdle /\ EcIdle /\ FpIdle

NextChallenger ==
    \/ \E v \in Felts : ChObserve(v)
    \/ ChSample
    \/ ChDuplexing
    \/ ChCopy
    \/ \E v \in Felts : CopyObserve(v)
    \/ CopySample

SpecChallenger == InitChallenger /\ [][NextChallenger]_vars

(* ------------------ the fill pass, whole registry --------------------- *)
\* chips.iter().for_each(|chip| chip.generate_trace(&mut self.segment)),
\* one iteration: the chip reads its own event list and appends one
\* derived event per event to the lists it emits to.
FillRegistryStep ==
    /\ f_i <= Len(RegistryOrder)
    /\ LET chip == RegistryOrder[f_i]
           m == f_len[chip]
       IN /\ f_read' = [f_read EXCEPT ![chip] = m]
          /\ f_len' = [c \in ChipNames |->
                          IF c \in Emits(chip) THEN f_len[c] + m
                          ELSE f_len[c]]
    /\ f_i' = f_i + 1
    /\ UNCHANGED << f_src, perf, pc, proverVars, verifierVars,
                    challengerVars, ecVars, fpVars >>

InitFill ==
    /\ RuntimeIdle
    /\ ChallengerIdle
    /\ \E src \in [EventChips -> 0..MaxEvents] : FillState(src)
    /\ EcIdle
    /\ FpIdle

NextFill == FillRegistryStep

SpecFill == InitFill /\ [][NextFill]_vars

(* ------------------------------ ecrecover ----------------------------- *)
\* unconstrained_ecrecover: the key and s_inverse are read from outside the
\* VM and are whatever the host wrote.
EcHint(ck, s_inv) ==
    /\ e_pc = "start"
    /\ e_hint' = [key |-> ck, s_inv |-> s_inv]
    /\ e_pc' = "hinted"
    /\ UNCHANGED << zkvm, e_sig, e_z, e_pubkey, e_call, e_result, e_deg,
                    e_msm >>
    /\ UNCHANGED << perf, pc, proverVars, verifierVars, challengerVars,
                    fillVars, fpVars >>

\* decompress_pubkey(&pubkey).context(..)?
EcDecompress ==
    /\ e_pc = "hinted"
    /\ LET d == decompress_pubkey(zkvm, e_hint.key)
       IN IF d.kind = "Ok"
          THEN /\ e_pubkey' = d.key
               /\ e_pc' = "decompressed"
               /\ UNCHANGED e_result
          ELSE /\ e_result' = d
               /\ e_pc' = "done"
               /\ UNCHANGED e_pubkey
    /\ UNCHANGED << zkvm, e_sig, e_z, e_hint, e_call, e_deg, e_msm >>
    /\ UNCHANGED << perf, pc, proverVars, verifierVars, challengerVars,
                    fillVars, fpVars >>

\* Signature::from_slice(&sig[..64]).unwrap(), verify_signature(&pubkey,
\* msg_hash, &signature, Some(&s_inv)) and the return.
EcVerify(deg) ==
    /\ e_pc = "decompressed"
    /\ e_deg' = deg
    /\ IF e_sig.r = 0 \/ e_sig.s = 0
       THEN /\ e_result' = [kind |-> "abort", key |-> 0]
            /\ UNCHANGED e_call
       ELSE LET c == verify_signature(zkvm, e_pubkey, e_z, e_sig,
                                      SomeScalar(e_hint.s_inv), deg)
            IN /\ e_call' = c
               /\ e_result' = IF c.verdict = "abort"
                              THEN [kind |-> "abort", key |-> 0]
                              ELSE EcReturn(c.verdict = "true", e_pubkey)
    /\ e_pc' = "done"
    /\ UNCHANGED << zkvm, e_sig, e_z, e_hint, e_pubkey, e_msm >>
    /\ UNCHANGED << perf, pc, proverVars, verifierVars, challengerVars,
                    fillVars, fpVars >>

\* double_and_add_base(&a, &A, &b, &B) called on its own.
EcMsm(deg) ==
    /\ e_pc = "msm"
    /\ e_deg' = deg
    /\ e_msm' = [e_msm EXCEPT !.res =
          double_and_add_base(e_msm.a, e_msm.A, e_msm.b, e_msm.B, deg)]
    /\ e_pc' = "done"
    /\ UNCHANGED << zkvm, e_sig, e_z, e_hint, e_pubkey, e_call, e_result >>
    /\ UNCHANGED << perf, pc, proverVars, verifierVars, challengerVars,
                    fillVars, fpVars >>

InitEcrecover ==
    /\ RuntimeIdle
    /\ ChallengerIdle
    /\ FillIdle
    /\ FpIdle
    /\ \/ \E t \in BOOLEAN, r \in Scalars, x \in Scalars, z \in Scalars :
             EcState(t, [r |-> r, s |-> x], z)
       \/ \E a, b \in Scalars, A, B \in AffinePoints :
             EcMsmState(a, A, b, B)

NextEcrecover ==
    \/ \E ck \in CompressedKeys, s_inv \in Scalars : EcHint(ck, s_inv)
    \/ EcDecompress
    \/ \E deg \in DegenerateOutcomes : EcVerify(deg)
    \/ \E deg \in DegenerateOutcomes : EcMsm(deg)

SpecEcrecover == InitEcrecover /\ [][NextEcrecover]_vars

(* ----------------------------- Fp12MulChip ---------------------------- *)
\* One field-operation step of the macro: self.mul / self.add / self.sub
\* on a column, as Fp12MulChipTrace runs it when the trace is generated
\* and as Fp12MulChipEval runs it when the constraints are evaluated.
FieldOp ==
    /\ fp_pc = "start"
    /\ \E m \in Methods, a, b \in FpElems :
          fp_op' = [m |-> m, a |-> a, b |-> b,
                    val |-> Fp12MulChipTrace_call(m, a, b),
                    populated |-> Fp12MulChipTrace_op(m),
                    constrained |-> Fp12MulChipEval_op(m)]
    /\ fp_pc' = "done"
    /\ UNCHANGED << fp_sop, fp_mul, fp_rec, fp_shard >>
    /\ UNCHANGED << perf, pc, proverVars, verifierVars, challengerVars,
                    fillVars, ecVars >>

\* self.sum_of_products(dest, a, b) while the trace is generated.
SumOfProducts ==
    /\ fp_pc = "start"
    /\ \E sa, sb \in SignTags, va, vb \in Sparse(6) :
          LET a == [i \in 1..6 |-> Signed(sa[i], va[i])]
              b == [i \in 1..6 |-> Signed(sb[i], vb[i])]
          IN fp_sop' = [a |-> a, b |-> b, val |-> sum_of_products(a, b)]
    /\ fp_pc' = "done"
    /\ UNCHANGED << fp_op, fp_mul, fp_rec, fp_shard >>
    /\ UNCHANGED << perf, pc, proverVars, verifierVars, challengerVars,
                    fillVars, ecVars >>

\* constraints.fp12_mul(&mut cols.output, x, y) in generate_trace.
Fp12Mul ==
    /\ fp_pc = "start"
    /\ \E a, b \in Units(12) :
          fp_mul' = [a |-> a, b |-> b, res |-> fp12_mul(a, b)]
    /\ fp_pc' = "done"
    /\ UNCHANGED << fp_op, fp_sop, fp_rec, fp_shard >>
    /\ UNCHANGED << perf, pc, proverVars, verifierVars, challengerVars,
                    fillVars, ecVars >>

\* Fp12MulChip::execute: rt.record_mut().fp12_mul_events.push(..)
Fp12Execute ==
    /\ fp_pc \in {"start", "executing"}
    /\ Len(fp_rec.fp12_mul_events) < MaxEvents
    /\ fp_rec' = [fp_rec EXCEPT !.fp12_mul_events = Append(@, "Fp12Mul")]
    /\ fp_pc' = "executing"
    /\ UNCHANGED << fp_op, fp_sop, fp_mul, fp_shard >>
    /\ UNCHANGED << perf, pc, proverVars, verifierVars, challengerVars,
                    fillVars, ecVars >>

\* The syscall of the base-field multiplication: its event goes to
\* fp_mul_events.
FpMulExecute ==
    /\ fp_pc \in {"start", "executing"}
    /\ Len(fp_rec.fp_mul_events) < MaxEvents
    /\ fp_rec' = [fp_rec EXCEPT !.fp_mul_events = Append(@, "FpMul")]
    /\ fp_pc' = "executing"
    /\ UNCHANGED << fp_op, fp_sop, fp_mul, fp_shard >>
    /\ UNCHANGED << perf, pc, proverVars, verifierVars, challengerVars,
                    fillVars, ecVars >>

\* The machine asks chip.included(shard) and, for an included chip, has
\* generate_trace make one row per event of input.fp12_mul_events.
Fp12Shard ==
    /\ fp_pc \in {"start", "executing"}
    /\ fp_shard' = [asked |-> TRUE, included |-> included(fp_rec),
                    rows |-> IF included(fp_rec)
                             THEN Len(fp_rec.fp12_mul_events) ELSE 0]
    /\ fp_pc' = "done"
    /\ UNCHANGED << fp_op, fp_sop, fp_mul, fp_rec >>
    /\ UNCHANGED << perf, pc, proverVars, verifierVars, challengerVars,
                    fillVars, ecVars >>

InitFp12 ==
    /\ RuntimeIdle
    /\ ChallengerIdle
    /\ FillIdle
    /\ EcIdle
    /\ FpStart

NextFp12 ==
    \/ FieldOp
    \/ SumOfProducts
    \/ Fp12Mul
    \/ Fp12Execute
    \/ FpMulExecute
    \/ Fp12Shard

SpecFp12 == InitFp12 /\ [][NextFp12]_vars

(* ------------------------------- claims ------------------------------- *)
\* The state the prover's / verifier's challenger was constructed in.
PInit == NewChallenger(challenger.seed)

VInit == NewChallenger(v_challenger.seed)

\* verify was handed exactly what prove returned.
Honest == pc \in {"verify_observe", "verify_local", "verify_global",
                  "verify_sum", "done"} /\ tamper = NoTamper

SameInit == challenger.seed = v_challenger.seed

\* The main commitments of the local chips, registry order.
ProverCommits == [i \in 1..NUM_CHIPS |-> main_datas[i].main_commit]

\* The total verify is to test: every proof of the slice and the global one.
TotalSum ==
    FAdd(SumOfProofs(segments_proofs), FSum(v_global_proof.commulative_sums))

\* C1: whenever verify is in or past its per-chip loop, the caller's
\* challenger holds the main commitment of every proof of segments_proofs,
\* in slice order, and so does every clone handed to Verifier::verify.
C1_CommitmentsObservedFirst ==
    /\ pc = "verify_local" =>
          v_challenger = ObserveAll(VInit, MainCommits(segments_proofs))
    /\ \A i \in DOMAIN v_clone :
          v_clone[i] = ObserveAll(VInit, MainCommits(segments_proofs))

\* C2: with equal initial challengers and the proofs of prove handed over
\* untouched, the clone verify hands to the check of chip i is the clone
\* prove handed to the proving of chip i: the initial state followed by all
\* local main commitments in registry order.
C2_SameCloneState ==
    (Honest /\ SameInit) =>
        \A i \in DOMAIN v_clone :
            /\ v_clone[i] = p_clone[i]
            /\ p_clone[i] = ObserveAll(PInit, ProverCommits)

\* C3: verify returns Ok only if the total of all cumulative sums is zero,
\* and when every proof check passed and the total is nonzero it returns
\* NonZeroCommulativeSum.
C3_OkOnlyIfSumZero ==
    /\ result = OkResult => TotalSum = 0
    /\ (/\ pc = "done"
        /\ result.kind \notin {"InvalidSegmentProof", "InvalidGlobalProof"}
        /\ TotalSum # 0) => result = NonZeroCommulativeSum

\* C4: prove followed by verify on what prove returned, both from the same
\* initial challenger state, returns Ok(()).
C4_RoundTrip ==
    (pc = "done" /\ Honest /\ SameInit) => result = OkResult

\* C5: with the main commitment of one local proof replaced by another
\* value, verify never returns Ok and returns Err(InvalidSegmentProof(_)).
C5_TamperedCommitRejected ==
    tamper.kind = "commit" =>
        /\ result # OkResult
        /\ pc = "done" => result.kind = "InvalidSegmentProof"

C5_Witness ==
    /\ tamper.kind = "commit"
    /\ tamper.at = NUM_CHIPS
    /\ perf /\ SameInit
    /\ pc = "done"
    /\ result.kind = "InvalidSegmentProof"

\* C6: every chip list handed to Verifier::verify has as many elements as
\* the n of the proof it checks, and a checked proof whose n exceeds the
\* number of shards its opened values cover ends verify with
\* Err(InvalidSegmentProof(_)) at that proof; after Ok, the n of every
\* checked proof is the number of shards its opened values cover.
C6_ShardCountChecked ==
    \A i \in DOMAIN v_chips :
        /\ Len(v_chips[i]) = segments_proofs[i].n
        /\ segments_proofs[i].n > Len(segments_proofs[i].opened) =>
              /\ i = Len(v_chips)
              /\ pc = "done"
              /\ result.kind = "InvalidSegmentProof"
        /\ result = OkResult =>
              segments_proofs[i].n = Len(segments_proofs[i].opened)

\* A proof that would pass with its own shard count is rejected because its
\* n was raised.
C6_Witness ==
    /\ tamper.kind = "n"
    /\ pc = "done"
    /\ result.kind = "InvalidSegmentProof"
    /\ LET i == Len(v_chips)
           proof == segments_proofs[i]
       IN /\ i = tamper.at
          /\ proof.n > Len(proof.opened)
          /\ Len(v_chips[i]) = proof.n
          /\ VerifierVerify(ChipsV2(i, Len(proof.opened)), v_clone[i],
                            proof) = "Ok"

\* C7: verify returns Ok only if the slice has NUM_CHIPS proofs and one has
\* been checked for each local chip, in registry order.
C7_EveryChipCovered ==
    result = OkResult =>
        /\ Len(segments_proofs) = NUM_CHIPS
        /\ Len(v_chips) = NUM_CHIPS
        /\ \A i \in DOMAIN v_chips :
              \A k \in DOMAIN v_chips[i] : v_chips[i][k] = segment_chips[i]

\* C8: in prove and in verify, the transcript the global sub-protocol
\* derives its challenges from holds all local commitments followed by the
\* global chips' commitment.
C8_GlobalCommitObserved ==
    /\ p_gclone # NoClone =>
          p_gclone.observed =
              Append(ProverCommits, global_main_data.main_commit)
    /\ v_gclone # NoClone =>
          v_gclone.observed =
              Append(MainCommits(segments_proofs), v_global_proof.main_commit)

\* C9: once any per-chip proving task has started, every commit task has
\* finished with its MainData collected, and the challenger (and the clone
\* the task took) holds all NUM_CHIPS main commitments in registry order.
C9_Barrier1 ==
    \A i \in Chips :
        prove_task[i] # "idle" =>
            /\ \A j \in Chips :
                  /\ commit_task[j] = "done"
                  /\ main_datas[j] = CommitClosure(j, segment)
            /\ challenger = ObserveAll(PInit, ProverCommits)
            /\ p_clone[i] = challenger

\* One proving task runs while another has not started.
C9_Witness ==
    /\ pc = "prove_local"
    /\ \E i, j \in Chips : prove_task[i] = "running" /\ prove_task[j] = "idle"

\* C10: the global chips are committed and proved only when every local
\* proving task has finished and its proof is collected; no local task is
\* running while the global commit or prove takes place.
C10_Barrier2 ==
    (\/ pc \in {"global_commit", "global_prove"}
     \/ global_main_data # NoData
     \/ global_proof # NoProof) =>
        \A i \in Chips :
            /\ prove_task[i] = "done"
            /\ local_proofs[i] =
                  ProverProve(ObserveAll(PInit, ProverCommits),
                              ChipsV2(i, main_datas[i].n), main_datas[i])

C10_Witness ==
    /\ pc = "proved"
    /\ global_main_data = CommitMain(global_chips, global_segment)
    /\ global_proof # NoProof

\* C11: every local and global sub-protocol of prove and verify is given a
\* clone taken after the observation loop, the shared challenger still
\* equals every clone taken from it (no sub-protocol advanced it), and the
\* proof of chip i is the one computed from that state whatever the other
\* tasks have done so far.
C11_CloneIsolation ==
    /\ \A i \in Chips :
          /\ prove_task[i] # "idle" =>
                /\ obs_i = NUM_CHIPS + 1
                /\ p_clone[i] = challenger
          /\ prove_task[i] = "done" =>
                local_proofs[i] =
                    ProverProve(challenger, ChipsV2(i, main_datas[i].n),
                                main_datas[i])
    /\ p_gclone # NoClone =>
          /\ p_gclone = challenger
          /\ global_proof =
                ProverProve(challenger, global_chips, global_main_data)
    /\ \A i \in DOMAIN v_clone :
          /\ v_clone[i] = v_challenger
          /\ perf => v_obs_i = Len(segments_proofs) + 1
    /\ v_gclone # NoClone => v_gclone = v_challenger

\* A proving task has finished while a sibling is still running and a
\* third has not started.
C11_Witness ==
    /\ pc = "prove_local"
    /\ \E i, j, k \in Chips :
          /\ prove_task[i] = "done"
          /\ prove_task[j] = "running"
          /\ prove_task[k] = "idle"
          /\ local_proofs[i] # NoProof


\* The phases of one verify call, read off its state.
CommitmentsObserved ==
    v_challenger = ObserveAll(VInit, MainCommits(segments_proofs))

PerChipVerified ==
    /\ Len(v_chips) = NUM_CHIPS
    /\ v_i = NUM_CHIPS + 1
    /\ \A k \in 1..NUM_CHIPS :
          VerifierVerify(v_chips[k], v_clone[k], segments_proofs[k]) = "Ok"

GlobalVerified ==
    /\ v_gclone # NoClone
    /\ VerifierVerify(global_chips, v_gclone, v_global_proof) = "Ok"

\* The part of the phase order that is control flow alone: the chips of the
\* zip are taken in registry order, each at most once, the global check
\* follows the last of them, the verdict follows the global check, and an
\* error ends the call where it arose.
VerifyControlFlow ==
    /\ \A k \in DOMAIN v_chips :
          v_chips[k] = ChipsV2(k, segments_proofs[k].n)
    /\ Len(v_chips) = Len(v_clone)
    /\ Len(v_chips) \in {v_i - 1, v_i}
    /\ Len(v_chips) = v_i => result.kind = "InvalidSegmentProof"
    /\ v_gclone # NoClone => v_i = ZipLen(segments_proofs) + 1
    /\ (pc = "verify_sum" \/ result \in {OkResult, NonZeroCommulativeSum})
          => /\ v_gclone # NoClone
             /\ VerifierVerify(global_chips, v_gclone, v_global_proof) = "Ok"
    /\ result.kind = "InvalidSegmentProof" =>
          /\ pc = "done"
          /\ v_gclone = NoClone
          /\ Len(v_chips) = v_i
          /\ sum = 0
    /\ result.kind = "InvalidGlobalProof" =>
          /\ pc = "done"
          /\ sum = 0
    /\ result # NoResult <=> pc = "done"

\* C12: a verify call runs its phases in the order commitments observed,
\* every local chip in registry order, global proof, cumulative sum; Ok is
\* returned only after all four, and after an error nothing further is run.
C12_PhaseOrder ==
    /\ VerifyControlFlow
    /\ v_clone # << >> => CommitmentsObserved
    /\ v_gclone # NoClone => PerChipVerified
    /\ result = OkResult =>
          /\ CommitmentsObserved
          /\ PerChipVerified
          /\ GlobalVerified
          /\ sum = TotalSum

\* C12 where the observe loop is compiled in and the slice has one proof
\* per local chip.
C12_InPerfBuildFullSlice ==
    (perf /\ Len(segments_proofs) = NUM_CHIPS) => C12_PhaseOrder

\* The local chips whose proof Verifier::verify rejects, and whether it
\* rejects the global proof, for the input and transcript of this call.
FailingChips ==
    {k \in 1..ZipLen(segments_proofs) :
        VerifierVerify(ChipsV2(k, segments_proofs[k].n), v_challenger,
                       segments_proofs[k]) # "Ok"}

GlobalFails ==
    VerifierVerify(global_chips, v_challenger, v_global_proof) # "Ok"

FirstFailing == CHOOSE k \in FailingChips : \A l \in FailingChips : k <= l

\* C13: the error verify returns is that of the earliest invalid component
\* in the order local chips (registry order), global proof, cumulative sum.
C13_ErrorPrecedence ==
    pc = "done" =>
        /\ FailingChips # {} =>
              result = MapSegmentErr(
                  VerifierVerify(
                      ChipsV2(FirstFailing, segments_proofs[FirstFailing].n),
                      v_challenger, segments_proofs[FirstFailing]))
        /\ (FailingChips = {} /\ GlobalFails) =>
              result = MapGlobalErr(
                  VerifierVerify(global_chips, v_challenger, v_global_proof))
        /\ result.kind = "InvalidSegmentProof" => Len(v_chips) = FirstFailing
        /\ result.kind = "InvalidGlobalProof" => FailingChips = {}
        /\ result.kind = "NonZeroCommulativeSum" =>
              FailingChips = {} /\ ~GlobalFails

\* Two local proofs, the global proof and the sum are all invalid; the
\* first invalid local proof is not that of the first chip, and its error
\* is not the error of the later one.
C13_Witness ==
    /\ pc = "done"
    /\ tamper.kind = "several"
    /\ Cardinality(FailingChips) >= 2
    /\ FirstFailing > 1
    /\ GlobalFails
    /\ TotalSum # 0
    /\ result = MapSegmentErr("BadCommitment")
    /\ \E k \in FailingChips :
          VerifierVerify(ChipsV2(k, segments_proofs[k].n), v_challenger,
                         segments_proofs[k]) = "BadConstraintEvaluation"

\* C14: the error returned for a failed local chip tells which chip it was:
\* the failure of any other local chip with the same chip-level error would
\* have given a different value.
C14_ErrorIdentifiesChip ==
    result.kind = "InvalidSegmentProof" =>
        \A j \in Chips \ {v_i} : SegmentFailure(j, result.err) # result

\* p is a proof for local chip i of this call: it opens that chip's tables,
\* one per shard of the chip, under the commitment made for the chip.
IsProofOf(p, i) ==
    /\ p.n = segment.events[i]
    /\ Len(p.opened) = p.n
    /\ \A k \in DOMAIN p.opened : p.opened[k] = segment_chips[i]
    /\ p.main_commit = CommitClosure(i, segment).main_commit

Returned == pc \in {"proved", "verify_observe", "verify_local",
                    "verify_global", "verify_sum", "done"}

\* C17: a proof stored at position i is the proof of the i-th registry
\* chip whatever order the tasks finished in, and prove returns NUM_CHIPS
\* such proofs together with one proof of the global chips.
C17_ProofsInRegistryOrder ==
    /\ \A i \in Chips :
          local_proofs[i] # NoProof => IsProofOf(local_proofs[i], i)
    /\ Returned =>
          /\ Len(ReturnedProofs) = NUM_CHIPS
          /\ \A i \in 1..NUM_CHIPS : IsProofOf(ReturnedProofs[i], i)
          /\ global_proof # NoProof
          /\ global_proof.opened = global_chips
          /\ global_proof.main_commit =
                CommitMain(global_chips, global_segment).main_commit
    /\ Honest =>
          /\ segments_proofs = ReturnedProofs
          /\ v_global_proof = global_proof

\* prove has returned and the chips differ in their number of shards, so a
\* proof at the wrong position would show.
C17_Witness ==
    /\ pc = "proved"
    /\ segment.events[1] = MaxShards
    /\ segment.events[NUM_CHIPS] = 1
    /\ \A i, j \in Chips : i # j => local_proofs[i] # local_proofs[j]

\* C18: the segment is written by the fill pass only, one generate_trace
\* per local chip in registry order; every other step of prove, the
\* parallel commit and proving tasks among them, leaves it as it is.
C18_SegmentWrittenInFillOnly ==
    /\ [](segment.derived = SubSeq(segment_chips, 1, fill_i - 1))
    /\ [][segment' # segment =>
             /\ pc = "fill"
             /\ \A i \in Chips : commit_task[i] = "idle" /\ prove_task[i] = "idle"
             /\ segment' = [segment EXCEPT
                              !.derived = Append(@, segment_chips[fill_i])]
             /\ fill_i' = fill_i + 1]_vars

\* Two commit tasks are running at once, after a fill pass that applied
\* every chip once.
C18_Witness ==
    /\ pc = "commit"
    /\ segment.derived = segment_chips
    /\ \E i, j \in Chips :
          i # j /\ commit_task[i] = "running" /\ commit_task[j] = "running"

\* C19: proofs made from a record changed so that the cross-table
\* contributions no longer cancel, each proof passing its own check, are
\* not accepted by verify.
C19_MaliciousProverRejected ==
    ( /\ pc = "done"
      /\ tamper.kind = "forge"
      /\ Len(segments_proofs) = NUM_CHIPS
      /\ FailingChips = {} /\ ~GlobalFails
      /\ TotalSum # 0 )
    => result # OkResult

\* C16: when a chip's fill step has run, no chip that runs after it appends
\* to the event list it read: every list still has the length its chip
\* found.
C16_DependencyOrder ==
    \A k \in 1..(f_i - 1) :
        f_len[RegistryOrder[k]] = f_read[RegistryOrder[k]]

\* The division chip had events, so the multiplication chip and the
\* byte-lookup chip read lists that earlier chips had appended to.
C16_Witness ==
    /\ f_i = Len(RegistryOrder) + 1
    /\ f_src["divrem"] >= 1
    /\ f_read["divrem"] >= 1
    /\ f_read["mul"] > f_src["mul"]
    /\ f_read["bytes"] > f_src["bytes"] + f_read["mul"]

\* C20: after any sequence of observes followed by a sample, the variable
\* challenger has returned the element the reference returned.
C20_SameSampleAsReference ==
    sampled => (~dc.panicked /\ dc_out = p3_out)

\* C21: copy returns a challenger with the original's sponge state and
\* buffers and leaves the original as it was; afterwards a call on the copy
\* leaves the original unchanged and a call on the original leaves the
\* copy unchanged.
C21_CopyIndependent ==
    [][ /\ (copied = -1 /\ copied' = 0) =>
              /\ dcc'.sponge_state = dc.sponge_state
              /\ dcc'.input_buffer = dc.input_buffer
              /\ dcc'.output_buffer = dc.output_buffer
              /\ dc' = dc
        /\ (copied >= 0 /\ dcc' # dcc) => dc' = dc
        /\ (copied >= 0 /\ dc' # dc) => dcc' = dcc ]_vars

\* A copy taken with inputs buffered; original and copy have each observed
\* a different element since.
C21_Witness ==
    /\ copied >= 2
    /\ Len(dc.input_buffer) >= 2
    /\ Len(dcc.input_buffer) = Len(dc.input_buffer)
    /\ dcc.input_buffer # dc.input_buffer
    /\ SubSeq(dcc.input_buffer, 1, Len(dc.input_buffer) - 1)
          = SubSeq(dc.input_buffer, 1, Len(dc.input_buffer) - 1)

\* C29: whenever sample has been called it has returned an element, the
\* output buffer being non-empty when popped.
C29_SampleReturns ==
    sampled => (~dc.panicked /\ dc_out # NoFelt)

\* C30: every duplexing call, direct or from observe, completes with
\* input_buffer empty, sponge_state the permutation of the previous state
\* overwritten by the buffered inputs, and output_buffer the
\* PERMUTATION_WIDTH elements of the new state.
C30_DuplexingCompletes ==
    [][ /\ ChDuplexing =>
              /\ ~dc'.panicked
              /\ dc'.input_buffer = << >>
              /\ dc'.sponge_state =
                    Poseidon2Permute(
                        CopyFromSlice(dc.sponge_state, dc.input_buffer))
              /\ dc'.output_buffer = dc'.sponge_state
        /\ ((\E v \in Felts : ChObserve(v))
              /\ Len(dc.input_buffer) = HASH_RATE - 1) =>
              /\ ~dc'.panicked
              /\ dc'.input_buffer = << >>
              /\ Len(dc'.output_buffer) = PERMUTATION_WIDTH
              /\ dc'.output_buffer = dc'.sponge_state ]_vars

\* C31: after every call on the challenger or on its copy, input_buffer
\* holds fewer than HASH_RATE elements; an observe that finds fewer than
\* HASH_RATE - 1 buffered elements returns with the element appended and
\* output_buffer empty; and outputs are held only while no observation is
\* waiting to be absorbed, so a sample has nothing older than the last
\* observation to return.
C31_BuffersBounded ==
    [][ /\ Len(dc'.input_buffer) < HASH_RATE
        /\ Len(dcc'.input_buffer) < HASH_RATE
        /\ \A v \in Felts :
              (ChObserve(v) /\ Len(dc.input_buffer) < HASH_RATE - 1) =>
                 /\ ~dc'.panicked
                 /\ dc'.input_buffer = Append(dc.input_buffer, Const(v))
                 /\ dc'.output_buffer = << >>
        /\ \A v \in Felts :
              (CopyObserve(v) /\ Len(dcc.input_buffer) < HASH_RATE - 1) =>
                 /\ ~dcc'.panicked
                 /\ dcc'.output_buffer = << >>
        /\ dc'.output_buffer # << >> => dc'.input_buffer = << >>
        /\ (ChSample /\ ~dc'.panicked) => dc.input_buffer = << >> ]_vars

\* HASH_RATE - 1 observes have returned: the buffer is one short of full
\* and no output is held.
C31_Witness ==
    /\ ~dc.panicked
    /\ Len(dc.input_buffer) = HASH_RATE - 1
    /\ dc.output_buffer = << >>

\* C22: ecrecover returns Ok(pubkey) only when verify_signature on the
\* decompressed key, msg_hash, the signature and the supplied s_inverse is
\* true; a hinted key that does not verify gives Err (or no return at all),
\* never the key.
C22_OkOnlyIfVerified ==
    /\ e_result.kind = "Ok" =>
          /\ e_call.verdict = "true"
          /\ e_result.key = e_pubkey
          /\ e_pubkey = decompress_pubkey(zkvm, e_hint.key).key
          /\ verify_signature(zkvm, e_pubkey, e_z, e_sig,
                              SomeScalar(e_hint.s_inv), e_deg).verdict
                = "true"
    /\ e_call.verdict = "false" => e_result = [kind |-> "Err", key |-> 0]

\* Both outcomes happen: a hinted key with a valid s_inverse that does not
\* verify ends in Err.
C22_Witness ==
    /\ e_pc = "done"
    /\ zkvm
    /\ SMul(e_hint.s_inv, e_sig.s) = 1
    /\ e_call.verdict = "false"
    /\ e_result.kind = "Err"

\* verify_signature has been called with the hinted s_inverse.
SigCalled == e_pc = "done" /\ e_call # NoCall

\* C23 as stated: a supplied s_inverse is used for u1 and u2 only if
\* s_inverse * s = 1, and any other supplied value aborts the call.
C23_SInverseValidated ==
    SigCalled =>
        /\ e_call.used.some =>
              /\ e_call.used.val = e_hint.s_inv
              /\ SMul(e_call.used.val, e_sig.s) = 1
        /\ SMul(e_hint.s_inv, e_sig.s) # 1 => e_call.verdict = "abort"

\* What holds in both builds: on the zkvm target the statement of C23; on
\* any other target the supplied value is never used and the verdict is the
\* same for every supplied value.
SInverseByTarget ==
    SigCalled =>
        /\ e_call.used.some =>
              /\ e_call.used.val = e_hint.s_inv
              /\ SMul(e_call.used.val, e_sig.s) = 1
        /\ zkvm =>
              (SMul(e_hint.s_inv, e_sig.s) # 1 => e_call.verdict = "abort")
        /\ ~zkvm =>
              /\ ~e_call.used.some
              /\ \A t \in Scalars :
                    verify_signature(zkvm, e_pubkey, e_z, e_sig,
                                     SomeScalar(t), e_deg).verdict
                       = e_call.verdict

\* double_and_add_base has been called on its own and is over.
MsmCalled == e_pc = "done" /\ e_msm.A # 0

\* The statement of C37 for the call recorded in e_msm and for the call
\* verify_signature made.
MsmStatement ==
    /\ MsmCalled =>
          /\ e_msm.res = NoPoint <=> (e_msm.a = 0 /\ e_msm.b = 0)
          /\ ~(e_msm.a = 0 /\ e_msm.b = 0) =>
                e_msm.res = SomePoint(GroupAdd(SMul(e_msm.a, e_msm.A),
                                               SMul(e_msm.b, e_msm.B)))
    /\ (SigCalled /\ zkvm /\ e_call.used.some
          /\ e_call.verdict = "abort") =>
          /\ SMul(e_z, e_call.used.val) = 0
          /\ SMul(e_sig.r, e_call.used.val) = 0

\* C37: double_and_add_base(a, A, b, B) returns None exactly when
\* a = b = 0 and Some(a*A + b*B) otherwise, and the unwrap in
\* verify_signature aborts only when u1 = u2 = 0.
C37_DoubleAndAdd == MsmStatement

\* No addition or doubling of the recorded calls met operands outside the
\* syscalls' formulas.
MsmRegular ==
    /\ MsmCalled =>
          double_and_add_base(e_msm.a, e_msm.A, e_msm.b, e_msm.B, -1)
             # NoReturn
    /\ (SigCalled /\ zkvm /\ e_call.used.some) =>
          double_and_add_base(SMul(e_z, e_call.used.val), GENERATOR,
                              SMul(e_sig.r, e_call.used.val), e_pubkey, -1)
             # NoReturn

\* Where every addition is of two points of different x and no doubling
\* gives the point at infinity, the statement of C37 holds.
MsmWhereDefined == MsmRegular => MsmStatement

\* The Fp12 product of a = (a.c0, a.c1) and b = (b.c0, b.c1) over
\* Fp12 = Fp6[w]/(w^2 - v): x = a.c0*b.c0 + v*(a.c1*b.c1) and
\* y = (a.c1 + a.c0)*(b.c0 + b.c1) - a.c0*b.c0 - a.c1*b.c1.
Fp12Product(a, b) ==
    LET ac0 == SubSeq(a, 1, 6)
        ac1 == SubSeq(a, 7, 12)
        bc0 == SubSeq(b, 1, 6)
        bc1 == SubSeq(b, 7, 12)
        aa == Fp6Mul(ac0, bc0)
        bb == Fp6Mul(ac1, bc1)
        x == Fp6Add(aa, Fp6MulByNonResidue(bb))
        y == Fp6Sub(Fp6Sub(Fp6Mul(Fp6Add(ac1, ac0), Fp6Add(bc0, bc1)), aa),
                    bb)
    IN x \o y

Fp12MulCalled == fp_pc = "done" /\ fp_mul # NoMul

\* C32: fp12_mul returns the Fp12 product of its inputs, and its
\* intermediate o is b.c0 + b.c1.
C32_Fp12Product ==
    Fp12MulCalled =>
        /\ ~fp_mul.res.panicked
        /\ fp_mul.res.out = Fp12Product(fp_mul.a, fp_mul.b)
        /\ fp_mul.res.o = Fp6Add(SubSeq(fp_mul.b, 1, 6),
                                 SubSeq(fp_mul.b, 7, 12))

FieldOpCalled == fp_pc = "done" /\ fp_op # NoOp

\* C33: the operation a step populates its column with when the trace is
\* generated is the operation the step constrains on that column.
C33_SameOperation ==
    FieldOpCalled => fp_op.populated = fp_op.constrained

\* The multiplication steps agree.
MulStepsAgree ==
    (FieldOpCalled /\ fp_op.m = "mul") =>
        fp_op.populated = fp_op.constrained

SumOfProductsCalled == fp_pc = "done" /\ fp_sop # NoSop

\* C34: sum_of_products returns the signed sum of the six products modulo
\* the modulus.
C34_SignedSum ==
    SumOfProductsCalled => fp_sop.val = SignedSum(fp_sop.a, fp_sop.b)

\* C35: sub, add and mul of Fp12MulChipTrace return the reduced difference,
\* sum and product for all operands below the modulus, and never abort.
C35_ReducedResults ==
    FieldOpCalled =>
        /\ fp_op.val \in FpElems
        /\ fp_op.m = "sub" => fp_op.val = FpSub(fp_op.a, fp_op.b)
        /\ fp_op.m = "add" => fp_op.val = FpAdd(fp_op.a, fp_op.b)
        /\ fp_op.m = "mul" => fp_op.val = FpMul(fp_op.a, fp_op.b)

\* The statement of C35 where no difference is negative.
ReducedWhereNotLess ==
    (fp_op.m = "sub" => fp_op.a >= fp_op.b) => C35_ReducedResults

\* C36: the chip is included in a shard exactly when the shard's
\* fp12_mul_events is non-empty.
C36_IncludedIffEvents ==
    /\ included(fp_rec) <=> fp_rec.fp12_mul_events # << >>
    /\ fp_shard.asked =>
          /\ fp_shard.included <=> fp_rec.fp12_mul_events # << >>
          /\ fp_shard.rows = Len(fp_rec.fp12_mul_events)

\* What included tests is the list of the base-field multiplication.
IncludedReadsFpMul ==
    fp_shard.asked => (fp_shard.included <=> fp_rec.fp_mul_events # << >>)

\* C24: the chip list handed to a per-chip sub-protocol, in prove (whose
\* proof opens the chips it was given) and in verify, has length n and each
\* element is the registry's chip of that index, for the first slot too.
C24_ExtractedChip ==
    /\ \A i \in Chips :
          local_proofs[i] # NoProof =>
              local_proofs[i].opened =
                  [k \in 1..main_datas[i].n |-> segment_chips[i]]
    /\ \A i \in DOMAIN v_chips :
          /\ Len(v_chips[i]) = segments_proofs[i].n
          /\ \A k \in DOMAIN v_chips[i] :
                /\ v_chips[i][k] = segment_chips[i]
                /\ i > 1 => v_chips[i][k] # Placeholder

\* verify has built the list of every slot: the first, whose chip is a
\* ProgramChip like the placeholder, and the last with more than one shard.
C24_Witness ==
    /\ Len(v_chips) = NUM_CHIPS
    /\ Len(v_chips[1]) >= 1
    /\ v_chips[1][1] = Placeholder
    /\ Len(v_chips[NUM_CHIPS]) >= 2
    /\ local_proofs[NUM_CHIPS].opened = v_chips[NUM_CHIPS]

\* C25: for every local chip the MainData of prove has n = number of
\* shards = number of committed traces, its commitment is that of one
\* commit_batches call on all n traces, and the chip's proving sub-protocol
\* was given n chip instances.
C25_ShardCountCarried ==
    \A i \in Chips :
        /\ commit_task[i] = "done" =>
              /\ main_datas[i].n = Len(Shard(i, segment))
              /\ main_datas[i].n = Len(main_datas[i].traces)
              /\ main_datas[i].main_commit =
                    CommitBatches(main_datas[i].traces).commit
              /\ main_datas[i].main_data =
                    CommitBatches(main_datas[i].traces).data
        /\ local_proofs[i] # NoProof =>
              /\ Len(local_proofs[i].opened) = main_datas[i].n
              /\ local_proofs[i].n = main_datas[i].n

\* Chips with different shard counts have been committed and proved.
C25_Witness ==
    /\ pc = "proved"
    /\ main_datas[1].n = MaxShards
    /\ main_datas[NUM_CHIPS].n = 1
    /\ Len(local_proofs[1].opened) = MaxShards
    /\ Len(local_proofs[NUM_CHIPS].opened) = 1

\* C26: the k-th committed trace of a chip is the trace of the k-th shard
\* chip.shard returned, so the traces follow the shard order.
C26_ShardOrderKept ==
    \A i \in Chips :
        commit_task[i] = "done" =>
            \A k \in 1..Len(Shard(i, segment)) :
                /\ main_datas[i].traces[k] =
                      GenerateTrace(Shard(i, segment)[k])
                /\ main_datas[i].traces[k].part = k
                /\ main_datas[i].main_commit.digest[k] =
                      main_datas[i].traces[k]

\* A chip with several shards, all different, has been committed.
C26_Witness ==
    \E i \in Chips :
        /\ commit_task[i] = "done"
        /\ main_datas[i].n >= 2
        /\ main_datas[i].traces[1] # main_datas[i].traces[2]

\* C27: a proving task that is about to read chips_v2[0], or has read it,
\* has a chip with at least one shard, and prove never aborts on a chip
\* whose shard list is empty.
C27_ChipNamed ==
    /\ \A i \in Chips :
          prove_task[i] # "idle" => /\ main_datas[i].n >= 1
                                    /\ ChipsV2(i, main_datas[i].n) # << >>
    /\ pc # "panicked"

\* Where every chip has a shard, every task names its chip.
NamedWhereSharded ==
    (\A i \in Chips : Shard(i, segment) # << >>) => C27_ChipNamed

\* C28: when prove has returned, the caller's challenger is the initial one
\* with the local chips' main commitments observed in registry order and
\* nothing else; when verify has returned on what prove produced, its
\* challenger is the initial one with the same commitments observed, so
\* from equal initial states both calls leave equal challengers.
C28_CallerChallenger ==
    /\ pc \in {"proved", "verify_observe", "verify_local", "verify_global",
               "verify_sum", "done"} =>
          challenger = ObserveAll(PInit, ProverCommits)
    /\ (pc = "done" /\ Honest) =>
          v_challenger = ObserveAll(VInit, MainCommits(segments_proofs))
    /\ (pc = "done" /\ Honest /\ SameInit) => v_challenger = challenger

\* The part of C28 that is prove's: no proving task and no global step
\* advances the caller's challenger.
ProveChallengerFrame ==
    pc \in {"prove_local", "global_commit", "global_prove", "proved",
            "verify_observe", "verify_local", "verify_global",
            "verify_sum", "done"} =>
       challenger = ObserveAll(PInit, ProverCommits)

(* ------------------- the statements in a perf build ------------------- *)
\* With feature perf compiled in, the statement of C1 holds.
C1_InPerfBuild == perf => C1_CommitmentsObservedFirst

\* With feature perf compiled in, the statement of C2 holds.
C2_InPerfBuild == perf => C2_SameCloneState

\* With feature perf compiled in, the statement of C3 holds.
C3_InPerfBuild == perf => C3_OkOnlyIfSumZero

\* With feature perf compiled in, the statement of C4 holds.
C4_InPerfBuild == perf => C4_RoundTrip

\* With feature perf compiled in, the statement of C19 holds.
C19_InPerfBuild == perf => C19_MaliciousProverRejected

\* With feature perf compiled in, the statement of C28 holds.
C28_InPerfBuild == perf => C28_CallerChallenger

====
